---- MODULE Spec2Model ----
(***************************************************************************)
(* A model of the inference-perf load orchestrator:                        *)
(*   - the circuit breaker layer (SimpleCircuitBreaker and its triggers),  *)
(*   - the multi-process load generator (LoadGenerator.mp_run, run_stage,  *)
(*     preprocess), its workers (Worker.loop, schedule_client) and the     *)
(*     lifecycle collector (MultiprocessRequestDataCollector).             *)
(*                                                                         *)
(* Time is abstract.  Wall-clock timestamps of the breaker are integers    *)
(* of a clock that Tick advances; a float threshold th is the rational     *)
(* th_num / th_den, so that hits / total >= th is                          *)
(* hits * th_den >= th_num * total.                                        *)
(***************************************************************************)
EXTENDS Integers, Sequences, FiniteSets, TLC

\* ---------------------------------------------------------------- bounds
\* Largest wall-clock value the breaker clock reaches.
MaxTime == 3
\* Largest number of feed() calls in one run of the breaker.
MaxFeeds == 4
\* Largest Consecutive threshold tried.
MaxThreshold == 2
\* load.num_workers of the modelled run.
NumWorkers == 1
\* load.worker_max_concurrency of the modelled run.
WorkerMaxConcurrency == 1
\* Number of entries of load.stages.
NumStages == 2
SweepNumStages == 1
\* num_requests of every stage (and of the sweep pre-stage).
StageRequests == 2
\* Largest concurrency_level of a stage of the concurrent load type.
MaxConcurrencyLevel == 2
\* threshold of the Consecutive trigger of the run's circuit breaker.
BreakerThreshold == 2

VARIABLES
    breaker,     \* SimpleCircuitBreaker: [open, triggers]
    matches_n,   \* number of expressions in config.metrics.matches (>= 1)
    rules_n,     \* number of expressions in config.metrics.rules (>= 0)
    now,         \* datetime.now(), as an integer
    hist,        \* history: the HitSamples stamped by feed(), in order
    fed,         \* history: number of feed() calls so far
    was_reset,   \* history: reset() has been called
    last_op,     \* history: the last operation applied
    \* ---- LoadGenerator (the orchestrator process)
    opc,                        \* position of mp_run / run_stage / preprocess
    sweep_config,               \* load.sweep is configured
    stage_id,                   \* the stage run_stage is running (-1: sweep)
    enq,                        \* requests put on the queue by this run_stage
    timed_out,                  \* run_stage's local timed_out
    stage_status,               \* run_stage's local stage_status
    stage_runtime_info,         \* stage id -> status, "none" while absent
    interrupt_sig,              \* set by the SIGINT handler
    \* ---- shared between the processes
    request_phase, cancel_signal, stop_signal,       \* mp.Event
    finished_requests_counter, active_requests_counter,  \* mp.Value
    request_queue,              \* the items of the RequestQueue channel
    unfinished,                 \* its JoinableQueue count of unacknowledged puts
    \* ---- Worker processes
    wpc,                        \* worker -> position in Worker.loop
    permits,                    \* worker -> free permits of its semaphore
    tasks,                      \* worker -> its list of schedule_client tasks
    \* ---- MultiprocessRequestDataCollector
    collector_queue,            \* records put by record_metric, and the sentinel
    metrics,                    \* the collected vector
    collector_done,             \* collect_metrics has returned
    collector_unacked,          \* the queue's count of puts without task_done
    put_log,                    \* history: stage ids of the records put, in order
    \* ---- preprocess and its aggregator task
    agg_last,                   \* the value of the last sample in results
    rates,                      \* number of drain rates the results yield
    deadline_passed,            \* start_time + timeout has passed
    \* ---- the concurrent load type
    load_type,                  \* load.type: "constant" or "concurrent"
    stage_concurrency,          \* stage -> its concurrency_level (0: none)
    shared_max_concurrency,     \* worker -> the mp.Value the orchestrator writes
    current_concurrency,        \* worker -> size of its current semaphore
    \* ---- one request's timestamps (schedule_client, process_request)
    perf_counter,               \* time.perf_counter(), as an integer
    request_time,               \* the scheduled time carried by the queue item
    streaming,                  \* api_config.streaming
    rpc,                        \* position of schedule_client / process_request
    current_time,               \* schedule_client's reading of the clock
    start,                      \* process_request's start
    output_token_times,         \* process_response's list
    lifecycle,                  \* the RequestLifecycleMetric recorded, if any
    \* ---- run_stage's scheduling of one stage (the load timers)
    tpc,                        \* position of run_stage: timer, enqueue loop
    timer,                      \* the LoadTimer generator: [type, next_time, ...]
    trace_file,                 \* the lines of the trace file, if one is configured
    datagen_trace,              \* datagen.trace is not None
    rate_requests,              \* int(rate * duration) of the stage
    num_requests,               \* run_stage's num_requests
    scheduled,                  \* the request times put on the queue, in order
    \* ---- summarize_requests
    spc,                        \* position of the report: collecting, summarized
    records,                    \* the list of RequestLifecycleMetric passed in
    stage_rate,                 \* the stage_rate argument is given
    summary,                    \* the ResponsesSummary returned, if any
    reports,                    \* generate_reports' lifecycle_reports, if returned
    \* ---- deep_merge
    mpc,                        \* position: "start", "merged", "again"
    base, override,             \* the arguments of deep_merge
    merged,                     \* deep_merge(base, override)
    merged_again,               \* deep_merge(merged, override)
    \* ---- RequestQueue and the workers' channels
    qpc,                        \* position: "putting", "drained", "joined"
    prefered_worker_requested,  \* datagen.is_prefered_worker_requested()
    channels,                   \* self.queues: channel c is channels[c + 1]
    channel_unfinished,         \* per channel, the puts not yet acknowledged
    dequeued,                   \* worker w holds the items dequeued[w + 1]
    acknowledged,               \* history: [seq, worker] of each task_done
    placed,                     \* history: per put, its id and its channels
    \* ---- one LocalUserSession and the requests of it inside a worker
    req_pc,                     \* request -> position in to_payload / process_request
    in_flight_locked,           \* self._in_flight.locked()
    lock_waiters,               \* the waiters of the asyncio.Lock, in order
    waiting_rounds,             \* self._waiting_rounds: the futures, by request
    called,                     \* history: the requests in the order of get_context()
    obtained,                   \* history: the requests in the order get_context() returned
    \* ---- trace replay (SpecReplay)
    raw_trace,                  \* the timestamps of the trace file, as written
    replay_pc,                  \* idle, loaded
    traces,                     \* what load_traces returned
    replay_initial,             \* the time the replay starts at
    replayed,                   \* the times the replay timer yielded
    \* ---- streamed response (SpecStream)
    api_type,                   \* completion or chat
    stream,                     \* the bytes of the response body, as symbols
    delivered,                  \* how many of them iter_any() has yielded
    chunk_no,                   \* the chunks yielded so far
    buffer,                     \* process_response: buffer
    output_text,                \* process_response: output_text, as frame numbers
    sse_token_times,            \* process_response: output_token_times, as chunk numbers
    sse_pc,                     \* idle, reading, recorded, failed
    \* ---- history
    opened_in,                  \* the stages during which the breaker opened
    sigint_polled,              \* the stages whose polling loop observed SIGINT
    cancelled_stage             \* the stages cancel_signal was set for

cbvars == <<breaker, matches_n, rules_n, now, hist, fed, was_reset, last_op>>

orchvars == <<opc, sweep_config, stage_id, enq, timed_out, stage_status,
              stage_runtime_info, interrupt_sig>>

sharedvars == <<request_phase, cancel_signal, stop_signal,
                finished_requests_counter, active_requests_counter,
                request_queue, unfinished>>

workervars == <<wpc, permits, tasks>>

collvars == <<collector_queue, metrics, collector_done, collector_unacked,
              put_log>>

histvars == <<opened_in, sigint_polled, cancelled_stage>>

aggvars == <<agg_last, rates, deadline_passed>>

concvars == <<load_type, stage_concurrency, shared_max_concurrency,
              current_concurrency>>

lgvars == <<orchvars, sharedvars, workervars, collvars, histvars, aggvars,
            concvars>>

timevars == <<perf_counter, request_time, streaming, rpc, current_time, start,
              output_token_times, lifecycle>>

timervars == <<tpc, timer, trace_file, datagen_trace, rate_requests,
               num_requests, scheduled>>

sumvars == <<spc, records, stage_rate, summary, reports>>

mergevars == <<mpc, base, override, merged, merged_again>>

queuevars == <<qpc, prefered_worker_requested, channels, channel_unfinished,
               dequeued, acknowledged, placed>>

sessionvars == <<req_pc, in_flight_locked, lock_waiters, waiting_rounds,
                 called, obtained>>

replayvars == <<raw_trace, replay_pc, traces, replay_initial, replayed>>

ssevars == <<api_type, stream, delivered, chunk_no, buffer, output_text, sse_token_times, sse_pc>>

fnvars == <<timevars, timervars, sumvars, mergevars, queuevars, sessionvars, replayvars, ssevars>>

vars == <<cbvars, lgvars, fnvars>>

\* ------------------------------------------------------------- triggers
\* HitSample(ts, hit)
HitSample(ts, hit) == [ts |-> ts, hit |-> hit]

\* Consecutive.__init__ ; the unused fields keep one record shape per trigger.
Consecutive(threshold) ==
    [type |-> "consecutive", n |-> threshold, c |-> 0, fired |-> FALSE,
     size |-> 0, th_num |-> 0, th_den |-> 1, min |-> 0, buf |-> <<>>]

\* RateOverWindow.__init__
RateOverWindow(window_sec, th_num, th_den, min_samples) ==
    [type |-> "rate_over_window", size |-> window_sec, th_num |-> th_num,
     th_den |-> th_den, min |-> min_samples, buf |-> <<>>, fired |-> FALSE,
     n |-> 0, c |-> 0]

\* A plausible slip of Consecutive.update: a miss leaves the counter alone.
ConsecutiveCount_NoResetOnMiss(c, hit) == IF hit # 0 THEN c + 1 ELSE c

\* Consecutive.update: self.c = self.c + 1 if s.hit else 0
ConsecutiveCount(c, hit) == IF hit # 0 THEN c + 1 ELSE 0

\* Consecutive.update
ConsecutiveUpdate(t, s) ==
    LET c == ConsecutiveCount(t.c, s.hit)
    IN  [t EXCEPT !.c = c, !.fired = IF c >= t.n THEN TRUE ELSE t.fired]

\* A plausible slip of the pruning test: <= instead of <.
Expired_Inclusive(ts, cutoff) == ts <= cutoff

\* RateOverWindow.update: self.buf[0].ts < cutoff
Expired(ts, cutoff) == ts < cutoff

\* while self.buf and self.buf[0].ts < cutoff: self.buf.popleft()
RECURSIVE PopExpired(_, _)
PopExpired(buf, cutoff) ==
    IF buf # <<>> /\ Expired(Head(buf).ts, cutoff)
    THEN PopExpired(Tail(buf), cutoff)
    ELSE buf

\* sum(x.hit for x in self.buf)
RECURSIVE SumHits(_)
SumHits(buf) == IF buf = <<>> THEN 0 ELSE Head(buf).hit + SumHits(Tail(buf))

\* The test of RateOverWindow.update on a pruned buffer:
\* total >= min and (hits / total if total else 0.0) >= th
RateReached(buf, min, th_num, th_den) ==
    LET total == Len(buf)
        hits  == SumHits(buf)
    IN  /\ total >= min
        /\ IF total # 0 THEN hits * th_den >= th_num * total
                        ELSE 0 >= th_num

\* RateOverWindow.update
RateOverWindowUpdate(t, s) ==
    LET buf == PopExpired(Append(t.buf, s), s.ts - t.size)
    IN  [t EXCEPT !.buf = buf,
                  !.fired = IF RateReached(buf, t.min, t.th_num, t.th_den)
                            THEN TRUE ELSE t.fired]

\* Trigger.update, by trigger class
TriggerUpdate(t, s) ==
    IF t.type = "consecutive" THEN ConsecutiveUpdate(t, s)
                              ELSE RateOverWindowUpdate(t, s)

\* Trigger.fired
TriggerFired(t) == t.fired

\* Whether the trigger's condition holds of its present state, latch aside.
TriggerConditionNow(t) ==
    IF t.type = "consecutive" THEN t.c >= t.n
    ELSE RateReached(t.buf, t.min, t.th_num, t.th_den) /\ t.buf # <<>>

\* -------------------------------------------------------------- breaker
\* SimpleCircuitBreaker._search: OR over the expressions; a truthy result
\* returns True, a falsy one or an exception moves on to the next.
Search(results) == \E i \in 1..Len(results) : results[i] = "true"

\* The outcomes of evaluating one JMESPath expression on a record.
EvalResults == {"true", "false", "raise"}

\* A plausible slip of feed(): the flag follows the triggers' present
\* condition instead of latching.
OpenAfterFeed_Unlatched(open, triggers) ==
    \E i \in 1..Len(triggers) : TriggerConditionNow(triggers[i])

\* feed(): for t in triggers: t.update(s); if t.fired(): self._open = True
OpenAfterFeed(open, triggers) ==
    open \/ \E i \in 1..Len(triggers) : TriggerFired(triggers[i])

\* A plausible slip of feed: a record no matches expression accepts is fed to
\* the triggers as a miss.
BreakerFeed_UnmatchedIsMiss(b, mres, rres, ts) ==
    LET s  == HitSample(ts, IF Search(mres) /\ (rres = <<>> \/ Search(rres))
                            THEN 1 ELSE 0)
        ts2 == [i \in 1..Len(b.triggers) |-> TriggerUpdate(b.triggers[i], s)]
    IN  [open |-> OpenAfterFeed(b.open, ts2), triggers |-> ts2]

\* SimpleCircuitBreaker.feed on a record whose matches evaluate to mres and
\* whose rules evaluate to rres, at wall-clock time ts.
FeedHit(rres) == IF rres = <<>> \/ Search(rres) THEN 1 ELSE 0

BreakerFeed(b, mres, rres, ts) ==
    IF Search(mres)
    THEN LET s  == HitSample(ts, FeedHit(rres))
             ts2 == [i \in 1..Len(b.triggers) |-> TriggerUpdate(b.triggers[i], s)]
         IN  [open |-> OpenAfterFeed(b.open, ts2), triggers |-> ts2]
    ELSE b

\* SimpleCircuitBreaker.reset: self._open = False (the triggers are not touched)
BreakerReset(b) == [b EXCEPT !.open = FALSE]

\* SimpleCircuitBreaker.is_open
IsOpen(b) == b.open

\* CircuitBreaker.__init__
NewBreaker(triggers) == [open |-> FALSE, triggers |-> triggers]

\* ------------------------------------------------------- load generator
\* preprocess: if len(rates) <= 1: raise
RatesNeeded == 2

Workers == 0..(NumWorkers - 1)

\* The stage ids run_stage is called with: -1 by preprocess, then 0, 1, ...
StageIds == (-1)..(NumStages - 1)

\* len(self.stages): the configured stages, or the ones preprocess generated
\* from the sweep configuration.
LenStages == IF sweep_config THEN SweepNumStages ELSE NumStages

\* run_stage: num_requests = int(rate * duration), or the trace's count.
NumRequestsOf(s) == StageRequests

\* RequestQueueData: (stage_id, request_data, scheduled_ts, lora_adapter);
\* the model keeps the stage id.
RequestQueueData(s) == [stage_id |-> s]

\* A task created for schedule_client.  st is where the coroutine is:
\* "sleeping" (await sleep(sleep_time)), "inflight" (awaiting
\* process_request, counted in active_requests_counter) or "done";
\* cancel says task.cancel() was called and CancelledError is yet to be raised,
\* raised that the task ended with an exception other than CancelledError.
NewTask(item) ==
    [stage_id |-> item.stage_id, st |-> "sleeping", cancel |-> FALSE,
     raised |-> FALSE]

\* A plausible slip of process_request: a failed request records nothing.
RecordMetric_DropFailures(q, s, err) ==
    IF err THEN q ELSE Append(q, [none |-> FALSE, stage_id |-> s, error |-> err])

\* process_request: one RequestLifecycleMetric per attempt that ends, with
\* error set when the attempt failed; collector.record_metric puts it on
\* the collector's queue.
RecordMetric(q, s, err) ==
    Append(q, [none |-> FALSE, stage_id |-> s, error |-> err])

\* The sentinel None that ends collect_metrics.
Sentinel == [none |-> TRUE]

\* for task in tasks: task.cancel()   (a finished task is not affected)
CancelAll(ts) ==
    [i \in 1..Len(ts) |->
        IF ts[i].st = "done" THEN ts[i] ELSE [ts[i] EXCEPT !.cancel = TRUE]]

\* gather(*tasks) returns once every task is done, none with an exception.
AllDone(ts) == \A i \in 1..Len(ts) : ts[i].st = "done" /\ ~ts[i].raised

\* LazyLoadDataMixin.get_request returns the request data or raises (the
\* data generator's load_lazy_data raising, or not supporting lazy loading).
GetRequestRaises == BOOLEAN

\* The positions at which the orchestrator's coroutine is suspended in an
\* await, so that the collector task of the same event loop can run.
AwaitPoints ==
    {"poll_sleep", "wait_active", "preprocess_eval", "interval", "await_collector"}

\* The positions inside run_stage.
InRunStage ==
    {"enqueue", "poll", "poll_sleep", "after_poll", "wait_active", "drain",
     "cancel_clear", "clear_phase", "join"}

\* LoadGenerator._set_worker_concurrency: the value written to the shared
\* max concurrency of worker id, for concurrency_level c and n workers.
SetWorkerConcurrency(c, n, id) ==
    LET new_concurrency == (c \div n) + 1
        remainder == c % n
    IN  IF id < remainder THEN new_concurrency + 1 ELSE new_concurrency

\* StandardLoadStage: concurrency_level is None.
NoConcurrency == [s \in 0..(NumStages - 1) |-> 0]

\* A plausible slip of the semaphore: acquire never waits.
CanAcquire_NeverWaits(p) == TRUE

\* Semaphore.acquire returns once a permit is free.
CanAcquire(p) == p > 0

\* No request is being followed for its timestamps.
TimeIdle ==
    /\ perf_counter = 0
    /\ request_time = 0
    /\ streaming = FALSE
    /\ rpc = "idle"
    /\ current_time = 0
    /\ start = 0
    /\ output_token_times = <<>>
    /\ lifecycle = <<>>

\* No stage is being scheduled.
NoTimer ==
    [type |-> "none", next_time |-> 0, left |-> 0, index |-> 0,
     req_count |-> -1, base |-> 0, emitted |-> 0]

TimerIdle ==
    /\ tpc = "idle"
    /\ timer = NoTimer
    /\ trace_file = <<>>
    /\ datagen_trace = FALSE
    /\ rate_requests = 0
    /\ num_requests = 0
    /\ scheduled = <<>>

\* No report is being written.
SummaryIdle ==
    /\ spc = "idle"
    /\ records = <<>>
    /\ stage_rate = FALSE
    /\ summary = <<>>
    /\ reports = <<>>

\* No configuration is being merged.
MergeIdle ==
    /\ mpc = "idle"
    /\ base = {}
    /\ override = {}
    /\ merged = {}
    /\ merged_again = {}

\* No RequestQueue has been created.
QueueIdle ==
    /\ qpc = "idle"
    /\ prefered_worker_requested = FALSE
    /\ channels = <<>>
    /\ channel_unfinished = <<>>
    /\ dequeued = <<>>
    /\ acknowledged = <<>>
    /\ placed = <<>>

\* No user session exists.
SessionIdle ==
    /\ req_pc = <<>>
    /\ in_flight_locked = FALSE
    /\ lock_waiters = <<>>
    /\ waiting_rounds = <<>>
    /\ called = <<>>
    /\ obtained = <<>>

\* The components specified on their own are at rest.
ReplayIdle ==
    /\ raw_trace = <<>>
    /\ replay_pc = "idle"
    /\ traces = <<>>
    /\ replay_initial = 0
    /\ replayed = <<>>

StreamIdle ==
    /\ api_type = "none"
    /\ stream = <<>>
    /\ delivered = 0
    /\ chunk_no = 0
    /\ buffer = <<>>
    /\ output_text = <<>>
    /\ sse_token_times = <<>>
    /\ sse_pc = "idle"

FunctionsIdle == TimeIdle /\ TimerIdle /\ SummaryIdle /\ MergeIdle /\ QueueIdle /\ SessionIdle /\ ReplayIdle /\ StreamIdle

\* The state mp_run starts from: the signals and counters created, the
\* workers started in the request phase, the collector task created, one
\* circuit breaker (Consecutive over records with an error) initialised.
LoadGeneratorStart ==
    /\ opc = "mp_run"
    /\ stage_id = -1
    /\ enq = 0
    /\ timed_out = FALSE
    /\ stage_status = "running"
    /\ stage_runtime_info = [s \in StageIds |-> "none"]
    /\ interrupt_sig = FALSE
    /\ request_phase = TRUE
    /\ cancel_signal = FALSE
    /\ stop_signal = FALSE
    /\ finished_requests_counter = 0
    /\ active_requests_counter = 0
    /\ request_queue = <<>>
    /\ unfinished = 0
    /\ wpc = [w \in Workers |-> "top"]
    /\ permits = [w \in Workers |-> WorkerMaxConcurrency]
    /\ tasks = [w \in Workers |-> <<>>]
    /\ collector_queue = <<>>
    /\ metrics = <<>>
    /\ collector_done = FALSE
    /\ collector_unacked = 0
    /\ put_log = <<>>
    /\ opened_in = {}
    /\ sigint_polled = {}
    /\ cancelled_stage = {}
    /\ agg_last = 0
    /\ rates = 0
    /\ deadline_passed = FALSE
    /\ shared_max_concurrency = [w \in Workers |-> WorkerMaxConcurrency]
    /\ current_concurrency = [w \in Workers |-> WorkerMaxConcurrency]

\* The configurations of the run.  LoadConfig's validator rejects a sweep
\* with the concurrent load type.
Init ==
    /\ breaker = NewBreaker(<<Consecutive(BreakerThreshold)>>)
    /\ matches_n = 1
    /\ rules_n = 1
    /\ now = 0
    /\ hist = <<>>
    /\ fed = 0
    /\ was_reset = FALSE
    /\ last_op = "init"
    /\ sweep_config \in BOOLEAN
    /\ load_type \in {"constant", "concurrent"}
    /\ load_type = "concurrent" => ~sweep_config
    /\ stage_concurrency \in
          IF load_type = "concurrent"
          THEN [0..(NumStages - 1) -> 1..MaxConcurrencyLevel]
          ELSE {NoConcurrency}
    /\ LoadGeneratorStart
    /\ FunctionsIdle

\* ---- the orchestrator: mp_run, preprocess, run_stage

\* mp_run: if self.sweep_config: preprocess (run_stage with stage_id -1),
\* else the first stage of the stage loop.
MpRunBegin ==
    /\ opc = "mp_run"
    /\ stage_id' = IF sweep_config THEN -1 ELSE 0
    /\ opc' = IF sweep_config THEN "run_stage" ELSE "stage_setup"
    /\ UNCHANGED <<sweep_config, enq, timed_out, stage_status,
                   stage_runtime_info, interrupt_sig>>
    /\ UNCHANGED <<fnvars, cbvars, sharedvars, workervars, collvars, histvars>>
    /\ UNCHANGED <<aggvars, concvars>>

\* mp_run, head of the stage loop: for the concurrent load type
\* _set_worker_concurrency(stage.concurrency_level) writes every worker's
\* shared max concurrency; then rate and duration are taken from the stage.
StageSetup ==
    /\ opc = "stage_setup"
    /\ shared_max_concurrency' =
          IF load_type = "concurrent"
          THEN [w \in Workers |->
                  SetWorkerConcurrency(stage_concurrency[stage_id], NumWorkers, w)]
          ELSE shared_max_concurrency
    /\ opc' = "run_stage"
    /\ UNCHANGED <<sweep_config, stage_id, enq, timed_out, stage_status,
                   stage_runtime_info, interrupt_sig>>
    /\ UNCHANGED <<load_type, stage_concurrency, current_concurrency>>
    /\ UNCHANGED <<fnvars, cbvars, sharedvars, workervars, collvars, histvars, aggvars>>

\* run_stage: request_phase.set(); finished_requests_counter = 0;
\* stage_status = RUNNING.
RunStageBegin ==
    /\ opc = "run_stage"
    /\ request_phase' = TRUE
    /\ finished_requests_counter' = 0
    /\ enq' = 0
    /\ timed_out' = FALSE
    /\ stage_status' = "running"
    /\ opc' = "enqueue"
    /\ UNCHANGED <<sweep_config, stage_id, stage_runtime_info, interrupt_sig>>
    /\ UNCHANGED <<cancel_signal, stop_signal, active_requests_counter,
                   request_queue, unfinished>>
    /\ UNCHANGED <<fnvars, cbvars, workervars, collvars, histvars>>
    /\ UNCHANGED <<aggvars, concvars>>

\* run_stage: one turn of  for _ in range(num_requests): request_queue.put(...)
Enqueue ==
    /\ opc = "enqueue"
    /\ enq < NumRequestsOf(stage_id)
    /\ request_queue' = Append(request_queue, RequestQueueData(stage_id))
    /\ unfinished' = unfinished + 1
    /\ enq' = enq + 1
    /\ opc' = IF enq + 1 = NumRequestsOf(stage_id) THEN "poll" ELSE "enqueue"
    /\ UNCHANGED <<sweep_config, stage_id, timed_out, stage_status,
                   stage_runtime_info, interrupt_sig>>
    /\ UNCHANGED <<request_phase, cancel_signal, stop_signal,
                   finished_requests_counter, active_requests_counter>>
    /\ UNCHANGED <<fnvars, cbvars, workervars, collvars, histvars>>
    /\ UNCHANGED <<aggvars, concvars>>

\* run_stage: the test of the polling loop and its body up to sleep(1).
\* Only the sweep pre-stage has a timeout; whether it has elapsed is the clock's.
Poll ==
    /\ opc = "poll"
    /\ \E elapsed \in BOOLEAN :
        /\ elapsed => stage_id = -1
        /\ IF finished_requests_counter >= NumRequestsOf(stage_id)
           THEN /\ opc' = "after_poll"
                /\ UNCHANGED <<timed_out, sigint_polled, deadline_passed>>
           ELSE IF elapsed
           THEN /\ timed_out' = TRUE
                /\ deadline_passed' = TRUE
                /\ opc' = "after_poll"
                /\ UNCHANGED sigint_polled
           ELSE IF interrupt_sig
           THEN /\ sigint_polled' = sigint_polled \cup {stage_id}
                /\ opc' = "after_poll"
                /\ UNCHANGED <<timed_out, deadline_passed>>
           ELSE IF IsOpen(breaker)
           THEN /\ timed_out' = TRUE
                /\ opc' = "after_poll"
                /\ UNCHANGED <<sigint_polled, deadline_passed>>
           ELSE /\ opc' = "poll_sleep"
                /\ UNCHANGED <<timed_out, sigint_polled, deadline_passed>>
    /\ UNCHANGED <<sweep_config, stage_id, enq, stage_status,
                   stage_runtime_info, interrupt_sig>>
    /\ UNCHANGED <<opened_in, cancelled_stage, agg_last, rates, concvars>>
    /\ UNCHANGED <<fnvars, cbvars, sharedvars, workervars, collvars>>

\* run_stage: await sleep(1) of the polling loop returns.
PollWake ==
    /\ opc = "poll_sleep"
    /\ opc' = "poll"
    /\ UNCHANGED <<sweep_config, stage_id, enq, timed_out, stage_status,
                   stage_runtime_info, interrupt_sig>>
    /\ UNCHANGED <<fnvars, cbvars, sharedvars, workervars, collvars, histvars>>
    /\ UNCHANGED <<aggvars, concvars>>

\* run_stage: if (timed_out or self.interrupt_sig) and cancel_signal:
\*     cancel_signal.set()   else: stage_status = COMPLETED
AfterPoll ==
    /\ opc = "after_poll"
    /\ IF timed_out \/ interrupt_sig
       THEN /\ cancel_signal' = TRUE
            /\ cancelled_stage' = cancelled_stage \cup {stage_id}
            /\ opc' = "wait_active"
            /\ UNCHANGED stage_status
       ELSE /\ stage_status' = "completed"
            /\ opc' = "clear_phase"
            /\ UNCHANGED <<cancel_signal, cancelled_stage>>
    /\ UNCHANGED <<sweep_config, stage_id, enq, timed_out,
                   stage_runtime_info, interrupt_sig>>
    /\ UNCHANGED <<request_phase, stop_signal, finished_requests_counter,
                   active_requests_counter, request_queue, unfinished>>
    /\ UNCHANGED <<opened_in, sigint_polled>>
    /\ UNCHANGED <<fnvars, cbvars, workervars, collvars>>
    /\ UNCHANGED <<aggvars, concvars>>

\* run_stage: await sleep(1); while active_requests_counter.value > 0:
\* await sleep(1).  The step is the sleep that finds the counter at 0.
WaitActive ==
    /\ opc = "wait_active"
    /\ active_requests_counter = 0
    /\ opc' = "drain"
    /\ UNCHANGED <<sweep_config, stage_id, enq, timed_out, stage_status,
                   stage_runtime_info, interrupt_sig>>
    /\ UNCHANGED <<fnvars, cbvars, sharedvars, workervars, collvars, histvars>>
    /\ UNCHANGED <<aggvars, concvars>>

\* RequestQueue.drain: get_nowait() and task_done() until the queue is empty.
Drain ==
    /\ opc = "drain"
    /\ request_queue' = <<>>
    /\ unfinished' = unfinished - Len(request_queue)
    /\ opc' = "cancel_clear"
    /\ UNCHANGED <<sweep_config, stage_id, enq, timed_out, stage_status,
                   stage_runtime_info, interrupt_sig>>
    /\ UNCHANGED <<request_phase, cancel_signal, stop_signal,
                   finished_requests_counter, active_requests_counter>>
    /\ UNCHANGED <<fnvars, cbvars, workervars, collvars, histvars>>
    /\ UNCHANGED <<aggvars, concvars>>

\* run_stage: cancel_signal.clear(); stage_status = FAILED
CancelClear ==
    /\ opc = "cancel_clear"
    /\ cancel_signal' = FALSE
    /\ stage_status' = "failed"
    /\ opc' = "clear_phase"
    /\ UNCHANGED <<sweep_config, stage_id, enq, timed_out,
                   stage_runtime_info, interrupt_sig>>
    /\ UNCHANGED <<request_phase, stop_signal, finished_requests_counter,
                   active_requests_counter, request_queue, unfinished>>
    /\ UNCHANGED <<fnvars, cbvars, workervars, collvars, histvars>>
    /\ UNCHANGED <<aggvars, concvars>>

\* run_stage: request_phase.clear()
ClearPhase ==
    /\ opc = "clear_phase"
    /\ request_phase' = FALSE
    /\ opc' = "join"
    /\ UNCHANGED <<sweep_config, stage_id, enq, timed_out, stage_status,
                   stage_runtime_info, interrupt_sig>>
    /\ UNCHANGED <<cancel_signal, stop_signal, finished_requests_counter,
                   active_requests_counter, request_queue, unfinished>>
    /\ UNCHANGED <<fnvars, cbvars, workervars, collvars, histvars>>
    /\ UNCHANGED <<aggvars, concvars>>

\* A plausible slip of run_stage: it does not wait for the queue to be joined.
JoinReturns_NoWait(n) == TRUE

\* JoinableQueue.join() returns when the count of unfinished tasks is zero.
JoinReturns(n) == n = 0

\* run_stage: request_queue.join() returns once every put item has been
\* acknowledged; then self.stage_runtime_info[stage_id] = StageRuntimeInfo(...)
Join ==
    /\ opc = "join"
    /\ JoinReturns(unfinished)
    /\ stage_runtime_info' = [stage_runtime_info EXCEPT ![stage_id] = stage_status]
    /\ opc' = "stage_done"
    /\ UNCHANGED <<sweep_config, stage_id, enq, timed_out, stage_status,
                   interrupt_sig>>
    /\ UNCHANGED <<fnvars, cbvars, sharedvars, workervars, collvars, histvars>>
    /\ UNCHANGED <<aggvars, concvars>>

\* After run_stage returns.  In preprocess: on to the evaluation of the
\* samples.  In mp_run: if self.interrupt_sig: break; else the interval sleep.
StageDone ==
    /\ opc = "stage_done"
    /\ opc' = IF stage_id = -1 THEN "preprocess_eval"
              ELSE IF interrupt_sig THEN "teardown"
              ELSE "interval"
    /\ UNCHANGED <<sweep_config, stage_id, enq, timed_out, stage_status,
                   stage_runtime_info, interrupt_sig>>
    /\ UNCHANGED <<fnvars, cbvars, sharedvars, workervars, collvars, histvars>>
    /\ UNCHANGED <<aggvars, concvars>>

\* A plausible slip of preprocess: one drain rate is taken to be enough.
PreprocessFails_OnlyWithoutRates(n) == n < 1

\* preprocess: if len(rates) <= 1: raise Exception(...)
PreprocessFails(n) == n <= 1

\* preprocess after run_stage: with fewer than RatesNeeded drain rates it
\* raises, and mp_run sets stop_signal and returns; otherwise self.stages is
\* replaced and mp_run goes on to the stage loop.
PreprocessEval ==
    /\ opc = "preprocess_eval"
    /\ IF ~PreprocessFails(rates)
       THEN /\ stage_id' = 0
            /\ opc' = "stage_setup"
            /\ UNCHANGED stop_signal
       ELSE /\ stop_signal' = TRUE
            /\ opc' = "returned"
            /\ UNCHANGED stage_id
    /\ UNCHANGED <<sweep_config, enq, timed_out, stage_status,
                   stage_runtime_info, interrupt_sig>>
    /\ UNCHANGED <<request_phase, cancel_signal, finished_requests_counter,
                   active_requests_counter, request_queue, unfinished>>
    /\ UNCHANGED <<fnvars, cbvars, workervars, collvars, histvars, aggvars, concvars>>

\* mp_run: await sleep(self.stageInterval) returns; the next stage of the
\* loop, or the end of the loop.
Interval ==
    /\ opc = "interval"
    /\ IF stage_id + 1 < LenStages
       THEN /\ stage_id' = stage_id + 1
            /\ opc' = "stage_setup"
       ELSE /\ opc' = "teardown"
            /\ UNCHANGED stage_id
    /\ UNCHANGED <<sweep_config, enq, timed_out, stage_status,
                   stage_runtime_info, interrupt_sig>>
    /\ UNCHANGED <<fnvars, cbvars, sharedvars, workervars, collvars, histvars>>
    /\ UNCHANGED <<aggvars, concvars>>

\* mp_run: request_phase.set()
TeardownPhase ==
    /\ opc = "teardown"
    /\ request_phase' = TRUE
    /\ opc' = "teardown_stop"
    /\ UNCHANGED <<sweep_config, stage_id, enq, timed_out, stage_status,
                   stage_runtime_info, interrupt_sig>>
    /\ UNCHANGED <<cancel_signal, stop_signal, finished_requests_counter,
                   active_requests_counter, request_queue, unfinished>>
    /\ UNCHANGED <<fnvars, cbvars, workervars, collvars, histvars>>
    /\ UNCHANGED <<aggvars, concvars>>

\* mp_run: stop_signal.set()
TeardownStop ==
    /\ opc = "teardown_stop"
    /\ stop_signal' = TRUE
    /\ opc' = "returned"
    /\ UNCHANGED <<sweep_config, stage_id, enq, timed_out, stage_status,
                   stage_runtime_info, interrupt_sig>>
    /\ UNCHANGED <<request_phase, cancel_signal, finished_requests_counter,
                   active_requests_counter, request_queue, unfinished>>
    /\ UNCHANGED <<fnvars, cbvars, workervars, collvars, histvars>>
    /\ UNCHANGED <<aggvars, concvars>>

\* MultiprocessRequestDataCollector.start, after the run: self.queue.put(None),
\* then await collector_task.
CollectorStop ==
    /\ opc = "returned"
    /\ collector_queue' = Append(collector_queue, Sentinel)
    /\ opc' = "await_collector"
    /\ UNCHANGED <<sweep_config, stage_id, enq, timed_out, stage_status,
                   stage_runtime_info, interrupt_sig>>
    /\ collector_unacked' = collector_unacked + 1
    /\ UNCHANGED <<metrics, collector_done, put_log>>
    /\ UNCHANGED <<fnvars, cbvars, sharedvars, workervars, histvars>>
    /\ UNCHANGED <<aggvars, concvars>>

\* LoadGenerator._sigint_handler; a signal after mp_run has returned is of
\* no consequence and is left out.
Sigint ==
    /\ ~interrupt_sig
    /\ opc \notin {"returned", "await_collector"}
    /\ interrupt_sig' = TRUE
    /\ UNCHANGED <<opc, sweep_config, stage_id, enq, timed_out, stage_status,
                   stage_runtime_info>>
    /\ UNCHANGED <<fnvars, cbvars, sharedvars, workervars, collvars, histvars>>
    /\ UNCHANGED <<aggvars, concvars>>

\* ---- the aggregator task of preprocess (same event loop)

\* aggregator: results.append((time.perf_counter(), active_requests_counter.value))
\* every 0.5 s while run_stage(-1) is awaited.  Of the results the model
\* keeps the last sampled value and the number of rates they yield: one
\* for each sample below its predecessor, taken before start_time + timeout.
Aggregate ==
    /\ opc \in {"poll_sleep", "wait_active"}
    /\ stage_id = -1
    /\ ~deadline_passed
    /\ agg_last # active_requests_counter
    /\ rates' = IF active_requests_counter < agg_last /\ rates < RatesNeeded
                THEN rates + 1 ELSE rates
    /\ agg_last' = active_requests_counter
    /\ UNCHANGED <<deadline_passed, concvars>>
    /\ UNCHANGED <<fnvars, cbvars, orchvars, sharedvars, workervars, collvars, histvars>>

\* ---- the collector task (runs in the orchestrator's event loop)

\* A plausible slip of collect_metrics: records with an error are not kept.
Collected_DropFailures(m, item) ==
    IF item.error THEN m ELSE Append(m, item.stage_id)

\* collect_metrics: metrics.append(item); of a collected record the model
\* keeps the stage id.
Collected(m, item) == Append(m, item.stage_id)

\* collect_metrics: one turn of the loop on an item of the queue: the
\* sentinel is acknowledged and ends it; a record is appended, fed to the
\* breakers (fed counts the feed() calls) and acknowledged.  The run's
\* breaker matches every record and its rule is that error is set.  The
\* JoinableQueue is taken as one FIFO: request_queue.join() has returned
\* for every stage before the sentinel is put, so every record was put
\* before it.
Collect ==
    /\ opc \in AwaitPoints
    /\ ~collector_done
    /\ collector_queue # <<>>
    /\ LET item == Head(collector_queue)
       IN  IF item.none
           THEN /\ collector_done' = TRUE
                /\ UNCHANGED <<metrics, breaker, opened_in, fed>>
           ELSE LET b == BreakerFeed(breaker, <<"true">>,
                                     <<IF item.error THEN "true" ELSE "false">>, now)
                IN  /\ metrics' = Collected(metrics, item)
                    /\ breaker' = b
                    /\ fed' = fed + 1
                    /\ opened_in' =
                          IF IsOpen(b) /\ ~IsOpen(breaker) /\ opc \in InRunStage
                          THEN opened_in \cup {stage_id}
                          ELSE opened_in
                    /\ UNCHANGED collector_done
    /\ collector_queue' = Tail(collector_queue)
    /\ collector_unacked' = collector_unacked - 1
    /\ UNCHANGED <<matches_n, rules_n, now, hist, was_reset, last_op, put_log>>
    /\ UNCHANGED fnvars
    /\ UNCHANGED <<sigint_polled, cancelled_stage>>
    /\ UNCHANGED <<orchvars, sharedvars, workervars>>
    /\ UNCHANGED <<aggvars, concvars>>

\* ---- Worker.loop

\* while not self.stop_signal.is_set(): and, for the concurrent load type
\* (shared_max_concurrency is not None), the update of the semaphore: if the
\* shared value differs from current_concurrency the worker acquires all
\* permits of its semaphore, which waits until its tasks have released
\* them, and replaces it by a Semaphore of the new size.
WorkerTop(w) ==
    /\ wpc[w] = "top"
    /\ IF stop_signal
       THEN /\ wpc' = [wpc EXCEPT ![w] = "stopped"]
            /\ UNCHANGED <<permits, current_concurrency>>
       ELSE IF load_type = "concurrent"
               /\ shared_max_concurrency[w] # current_concurrency[w]
       THEN /\ permits[w] = current_concurrency[w]
            /\ permits' = [permits EXCEPT ![w] = shared_max_concurrency[w]]
            /\ current_concurrency' =
                  [current_concurrency EXCEPT ![w] = shared_max_concurrency[w]]
            /\ wpc' = [wpc EXCEPT ![w] = "inner"]
       ELSE /\ wpc' = [wpc EXCEPT ![w] = "inner"]
            /\ UNCHANGED <<permits, current_concurrency>>
    /\ UNCHANGED tasks
    /\ UNCHANGED <<load_type, stage_concurrency, shared_max_concurrency>>
    /\ UNCHANGED <<fnvars, cbvars, orchvars, sharedvars, collvars, histvars, aggvars>>

\* while self.request_phase.is_set() and not self.cancel_signal.is_set():
WorkerInner(w) ==
    /\ wpc[w] = "inner"
    /\ wpc' = [wpc EXCEPT ![w] = IF request_phase /\ ~cancel_signal
                                 THEN "acquire" ELSE "after_inner"]
    /\ UNCHANGED <<permits, tasks>>
    /\ UNCHANGED <<fnvars, cbvars, orchvars, sharedvars, collvars, histvars>>
    /\ UNCHANGED <<aggvars, concvars>>

\* await semaphore.acquire(): waits for a free permit.
WorkerAcquire(w) ==
    /\ wpc[w] = "acquire"
    /\ CanAcquire(permits[w])
    /\ permits' = [permits EXCEPT ![w] = @ - 1]
    /\ wpc' = [wpc EXCEPT ![w] = "get"]
    /\ UNCHANGED tasks
    /\ UNCHANGED <<fnvars, cbvars, orchvars, sharedvars, collvars, histvars>>
    /\ UNCHANGED <<aggvars, concvars>>

\* request_queue.get(timeout) returns an item; LazyLoadDataMixin.get_request;
\* create_task(schedule_client(...)); await sleep(0) lets the task start (it
\* sleeps until its scheduled time).  get_request is called outside any try:
\* if it raises, loop() is left with the exception, the item taken is never
\* acknowledged, its permit never released, and asyncio's run() cancels the
\* tasks still pending before the process ends.
WorkerGet(w) ==
    /\ wpc[w] = "get"
    /\ request_queue # <<>>
    /\ \E raises \in GetRequestRaises :
          IF raises
          THEN /\ tasks' = [tasks EXCEPT ![w] = CancelAll(@)]
               /\ wpc' = [wpc EXCEPT ![w] = "raised"]
          ELSE /\ tasks' = [tasks EXCEPT ![w] = Append(@, NewTask(Head(request_queue)))]
               /\ wpc' = [wpc EXCEPT ![w] = "inner"]
    /\ request_queue' = Tail(request_queue)
    /\ UNCHANGED permits
    /\ UNCHANGED <<request_phase, cancel_signal, stop_signal,
                   finished_requests_counter, active_requests_counter, unfinished>>
    /\ UNCHANGED <<fnvars, cbvars, orchvars, collvars, histvars>>
    /\ UNCHANGED <<aggvars, concvars>>

\* request_queue.get(timeout) raises Empty: semaphore.release(); continue
WorkerGetEmpty(w) ==
    /\ wpc[w] = "get"
    /\ request_queue = <<>>
    /\ permits' = [permits EXCEPT ![w] = @ + 1]
    /\ wpc' = [wpc EXCEPT ![w] = "inner"]
    /\ UNCHANGED tasks
    /\ UNCHANGED <<fnvars, cbvars, orchvars, sharedvars, collvars, histvars>>
    /\ UNCHANGED <<aggvars, concvars>>

\* if self.cancel_signal.is_set(): for task in tasks: task.cancel()
WorkerAfterInner(w) ==
    /\ wpc[w] = "after_inner"
    /\ IF cancel_signal
       THEN /\ tasks' = [tasks EXCEPT ![w] = CancelAll(@)]
            /\ wpc' = [wpc EXCEPT ![w] = "spin"]
       ELSE /\ wpc' = [wpc EXCEPT ![w] = "check_phase"]
            /\ UNCHANGED tasks
    /\ UNCHANGED permits
    /\ UNCHANGED <<fnvars, cbvars, orchvars, sharedvars, collvars, histvars>>
    /\ UNCHANGED <<aggvars, concvars>>

\* while self.request_phase.is_set(): await sleep(0)   -- leaves the loop
WorkerSpin(w) ==
    /\ wpc[w] = "spin"
    /\ ~request_phase
    /\ wpc' = [wpc EXCEPT ![w] = "check_phase"]
    /\ UNCHANGED <<permits, tasks>>
    /\ UNCHANGED <<fnvars, cbvars, orchvars, sharedvars, collvars, histvars>>
    /\ UNCHANGED <<aggvars, concvars>>

\* if not self.request_phase.is_set(): ... else back to the outer loop
WorkerCheckPhase(w) ==
    /\ wpc[w] = "check_phase"
    /\ wpc' = [wpc EXCEPT ![w] = IF ~request_phase THEN "gather" ELSE "top"]
    /\ UNCHANGED <<permits, tasks>>
    /\ UNCHANGED <<fnvars, cbvars, orchvars, sharedvars, collvars, histvars>>
    /\ UNCHANGED <<aggvars, concvars>>

\* await gather(*tasks) raises the exception a task ended with: the loop is
\* left with it, and asyncio's run() cancels the tasks still pending.
WorkerGatherRaises(w) ==
    /\ wpc[w] = "gather"
    /\ \E i \in 1..Len(tasks[w]) : tasks[w][i].raised
    /\ tasks' = [tasks EXCEPT ![w] = CancelAll(@)]
    /\ wpc' = [wpc EXCEPT ![w] = "raised"]
    /\ UNCHANGED permits
    /\ UNCHANGED <<fnvars, cbvars, orchvars, sharedvars, collvars, histvars>>
    /\ UNCHANGED <<aggvars, concvars>>

\* await gather(*tasks); tasks = []
WorkerGather(w) ==
    /\ wpc[w] = "gather"
    /\ AllDone(tasks[w])
    /\ tasks' = [tasks EXCEPT ![w] = <<>>]
    /\ wpc' = [wpc EXCEPT ![w] = "wait"]
    /\ UNCHANGED permits
    /\ UNCHANGED <<fnvars, cbvars, orchvars, sharedvars, collvars, histvars>>
    /\ UNCHANGED <<aggvars, concvars>>

\* self.request_phase.wait()
WorkerWait(w) ==
    /\ wpc[w] = "wait"
    /\ request_phase
    /\ wpc' = [wpc EXCEPT ![w] = "top"]
    /\ UNCHANGED <<permits, tasks>>
    /\ UNCHANGED <<fnvars, cbvars, orchvars, sharedvars, collvars, histvars>>
    /\ UNCHANGED <<aggvars, concvars>>

\* ---- schedule_client tasks

\* The task's sleep until its scheduled time ends:
\* active_requests_counter += 1 and process_request sends the request.
TaskSend(w, i) ==
    /\ tasks[w][i].st = "sleeping"
    /\ ~tasks[w][i].cancel
    /\ tasks' = [tasks EXCEPT ![w][i].st = "inflight"]
    /\ active_requests_counter' = active_requests_counter + 1
    /\ UNCHANGED <<wpc, permits>>
    /\ UNCHANGED <<request_phase, cancel_signal, stop_signal,
                   finished_requests_counter, request_queue, unfinished>>
    /\ UNCHANGED <<fnvars, cbvars, orchvars, collvars, histvars>>
    /\ UNCHANGED <<aggvars, concvars>>

\* process_request ends and records its metric: after the response, or in
\* its except Exception branch (an HTTP error, a timeout, a parse error) with
\* error set.  Then the finally block of schedule_client:
\* active -= 1, finished += 1, task_done(), semaphore.release().
TaskFinish(w, i) ==
    /\ tasks[w][i].st = "inflight"
    /\ ~tasks[w][i].cancel
    /\ \E err \in BOOLEAN :
          collector_queue' = RecordMetric(collector_queue, tasks[w][i].stage_id, err)
    /\ tasks' = [tasks EXCEPT ![w][i].st = "done"]
    /\ active_requests_counter' = active_requests_counter - 1
    /\ finished_requests_counter' = finished_requests_counter + 1
    /\ unfinished' = unfinished - 1
    /\ permits' = [permits EXCEPT ![w] = @ + 1]
    /\ UNCHANGED wpc
    /\ UNCHANGED <<request_phase, cancel_signal, stop_signal, request_queue>>
    /\ put_log' = Append(put_log, tasks[w][i].stage_id)
    /\ collector_unacked' = collector_unacked + 1
    /\ UNCHANGED <<metrics, collector_done>>
    /\ UNCHANGED <<fnvars, cbvars, orchvars, histvars>>
    /\ UNCHANGED <<aggvars, concvars>>

\* The task's sleep ends, active_requests_counter += 1, and process_request
\* raises in what precedes its try (to_payload, json.dumps): nothing is
\* recorded, schedule_client's finally block runs (active -= 1, finished += 1,
\* task_done(), semaphore.release()) and the task ends with the exception.
TaskRaises(w, i) ==
    /\ tasks[w][i].st = "sleeping"
    /\ ~tasks[w][i].cancel
    /\ tasks' = [tasks EXCEPT ![w][i] = [@ EXCEPT !.st = "done", !.raised = TRUE]]
    /\ finished_requests_counter' = finished_requests_counter + 1
    /\ unfinished' = unfinished - 1
    /\ permits' = [permits EXCEPT ![w] = @ + 1]
    /\ UNCHANGED wpc
    /\ UNCHANGED <<request_phase, cancel_signal, stop_signal, request_queue,
                   active_requests_counter>>
    /\ UNCHANGED <<fnvars, cbvars, orchvars, collvars, histvars>>
    /\ UNCHANGED <<aggvars, concvars>>

\* CancelledError is raised in a cancelled task: except CancelledError: pass,
\* then the finally block; no metric is recorded.
TaskCancelled(w, i) ==
    /\ tasks[w][i].st # "done"
    /\ tasks[w][i].cancel
    /\ tasks' = [tasks EXCEPT ![w][i] = [@ EXCEPT !.st = "done", !.cancel = FALSE]]
    /\ active_requests_counter' =
          IF tasks[w][i].st = "inflight" THEN active_requests_counter - 1
                                         ELSE active_requests_counter
    /\ finished_requests_counter' = finished_requests_counter + 1
    /\ unfinished' = unfinished - 1
    /\ permits' = [permits EXCEPT ![w] = @ + 1]
    /\ UNCHANGED wpc
    /\ UNCHANGED <<request_phase, cancel_signal, stop_signal, request_queue>>
    /\ UNCHANGED <<fnvars, cbvars, orchvars, collvars, histvars>>
    /\ UNCHANGED <<aggvars, concvars>>

OrchestratorStep ==
    \/ MpRunBegin \/ StageSetup \/ RunStageBegin \/ Enqueue \/ Poll \/ PollWake \/ AfterPoll
    \/ WaitActive \/ Drain \/ CancelClear \/ ClearPhase \/ Join \/ StageDone
    \/ PreprocessEval \/ Interval \/ TeardownPhase \/ TeardownStop
    \/ CollectorStop

WorkerStep(w) ==
    \/ WorkerTop(w) \/ WorkerInner(w) \/ WorkerAcquire(w) \/ WorkerGet(w)
    \/ WorkerGetEmpty(w) \/ WorkerAfterInner(w) \/ WorkerSpin(w)
    \/ WorkerCheckPhase(w) \/ WorkerGather(w) \/ WorkerGatherRaises(w)
    \/ WorkerWait(w)

Next ==
    \/ OrchestratorStep
    \/ Sigint
    \/ Collect
    \/ Aggregate
    \/ \E w \in Workers : WorkerStep(w)
    \/ \E w \in Workers : \E i \in 1..Len(tasks[w]) : TaskSend(w, i)
    \/ \E w \in Workers : \E i \in 1..Len(tasks[w]) : TaskFinish(w, i)
    \/ \E w \in Workers : \E i \in 1..Len(tasks[w]) : TaskRaises(w, i)
    \/ \E w \in Workers : \E i \in 1..Len(tasks[w]) : TaskCancelled(w, i)

Spec == Init /\ [][Next]_vars

\* The scheduling the run relies on: the event loops and the processes keep
\* running, a sleep ends, a cancelled task gets its CancelledError.  Nothing
\* makes the model server answer (TaskFinish) or the user press Ctrl-C.
Fairness ==
    /\ WF_vars(OrchestratorStep)
    /\ WF_vars(Collect)
    /\ WF_vars(Aggregate)
    /\ \A w \in Workers : WF_vars(WorkerStep(w))
    /\ WF_vars(\E w \in Workers : \E i \in 1..Len(tasks[w]) : TaskSend(w, i))
    /\ WF_vars(\E w \in Workers : \E i \in 1..Len(tasks[w]) : TaskCancelled(w, i))

SpecLive == Init /\ [][Next]_vars /\ Fairness

\* ------------------------------------------------- breaker specification
\* The trigger lists tried: one Consecutive, one RateOverWindow, and both.
ThresholdFractions == {<<0, 1>>, <<1, 2>>, <<1, 1>>}

ConsecutiveConfigs == {<<Consecutive(n)>> : n \in 1..MaxThreshold}

RateConfigs ==
    {<<RateOverWindow(w, f[1], f[2], m)>> :
        w \in 1..2, f \in ThresholdFractions, m \in 0..2}

MixedConfigs == {<<Consecutive(2), RateOverWindow(1, 1, 1, 2)>>}

InitCB ==
    /\ \E ts \in ConsecutiveConfigs \cup RateConfigs \cup MixedConfigs :
          breaker = NewBreaker(ts)
    /\ matches_n \in 1..2
    /\ rules_n \in 0..1
    /\ now = 0
    /\ hist = <<>>
    /\ fed = 0
    /\ was_reset = FALSE
    /\ last_op = "init"
    /\ sweep_config = FALSE
    /\ load_type = "constant"
    /\ stage_concurrency = NoConcurrency
    /\ LoadGeneratorStart
    /\ FunctionsIdle

\* feed(metric): the record decides what each expression evaluates to.
Feed ==
    /\ fed < MaxFeeds
    /\ \E mres \in [1..matches_n -> EvalResults],
          rres \in [1..rules_n -> EvalResults] :
          /\ breaker' = BreakerFeed(breaker, mres, rres, now)
          /\ hist' = IF Search(mres)
                     THEN Append(hist, HitSample(now, FeedHit(rres)))
                     ELSE hist
    /\ fed' = fed + 1
    /\ last_op' = "feed"
    /\ UNCHANGED <<matches_n, rules_n, now, was_reset, lgvars, fnvars>>

\* reset()
Reset ==
    /\ breaker' = BreakerReset(breaker)
    /\ was_reset' = TRUE
    /\ last_op' = "reset"
    /\ UNCHANGED <<matches_n, rules_n, now, hist, fed, lgvars, fnvars>>

\* The wall clock advances between calls.
Tick ==
    /\ now < MaxTime
    /\ now' = now + 1
    /\ last_op' = "tick"
    /\ UNCHANGED <<breaker, matches_n, rules_n, hist, fed, was_reset, lgvars, fnvars>>

NextCB == Feed \/ Reset \/ Tick

SpecCB == InitCB /\ [][NextCB]_vars

\* ------------------------------------------------------ breaker claims
OnlyConsecutive ==
    Len(breaker.triggers) = 1 /\ breaker.triggers[1].type = "consecutive"

OnlyRateOverWindow ==
    Len(breaker.triggers) = 1 /\ breaker.triggers[1].type = "rate_over_window"

\* The stamped samples h contain n hits in a row.
HasRun(h, n) ==
    \E i \in 1..(Len(h) - n + 1) : \A j \in i..(i + n - 1) : h[j].hit = 1

\* C2: a breaker whose only trigger is Consecutive(n), fed any sequence of
\* records and never reset, is open exactly when the matched records so far
\* contain n hits in a row: it opens at the n-th consecutive hit, not
\* earlier, and a matched miss starts the count again.
C2_ConsecutiveOpensAtNthHit ==
    (OnlyConsecutive /\ ~was_reset) =>
        (IsOpen(breaker) <=> HasRun(hist, breaker.triggers[1].n))

\* C2 witness: Consecutive(2) open after hit, miss, hit, hit.
C2_Witness ==
    /\ OnlyConsecutive /\ ~was_reset
    /\ breaker.triggers[1].n = 2
    /\ Len(hist) = 4
    /\ hist[1].hit = 1 /\ hist[2].hit = 0 /\ hist[3].hit = 1 /\ hist[4].hit = 1
    /\ IsOpen(breaker)

\* The samples of h stamped within [t - w, t].
SamplesWithin(h, t, w) ==
    SelectSeq(h, LAMBDA s : s.ts >= t - w /\ s.ts <= t)

\* A non-empty set of samples with len >= m and sum(hit) / len >= num / den.
RateConditionOn(win, m, num, den) ==
    LET hits == Cardinality({k \in 1..Len(win) : win[k].hit = 1})
    IN  /\ Len(win) > 0
        /\ Len(win) >= m
        /\ hits * den >= num * Len(win)

\* The condition of C3 on the samples received by the i-th matched feed,
\* looked at at time t.
RateConditionAt(i, t) ==
    LET tr == breaker.triggers[1]
    IN  RateConditionOn(SamplesWithin(SubSeq(hist, 1, i), t, tr.size),
                        tr.min, tr.th_num, tr.th_den)

\* C3 as amended: a breaker whose only trigger is RateOverWindow(w, th, m),
\* never reset, is open if and only if at the time t of some matched feed
\* the samples received up to and including that feed with timestamps
\* within [t - w, t] have len >= m and sum(hit) / len >= th.
C3_RateOpensIffWindowAtSomeFeed ==
    (OnlyRateOverWindow /\ ~was_reset) =>
        (IsOpen(breaker) <=>
            \E i \in 1..Len(hist) : RateConditionAt(i, hist[i].ts))

\* C3 as stated: ... if and only if at some time t (of a feed or between
\* feeds) the samples received by then within [t - w, t] have len >= m and
\* sum(hit) / len >= th.
C3_RateOpensIffWindowAtSomeTime ==
    (OnlyRateOverWindow /\ ~was_reset) =>
        (IsOpen(breaker) <=>
            \E i \in 1..Len(hist) :
                \E t \in hist[i].ts..(IF i < Len(hist) THEN hist[i + 1].ts ELSE now) :
                    RateConditionAt(i, t))

\* C3 witness: the trigger fired on a window from which an older sample
\* had been pruned and which still held a miss.
C3_Witness ==
    /\ OnlyRateOverWindow /\ ~was_reset
    /\ IsOpen(breaker)
    /\ Len(breaker.triggers[1].buf) < Len(hist)
    /\ \E k \in 1..Len(hist) : hist[k].hit = 0
    /\ breaker.triggers[1].min = 2

\* C4: with no reset() in between, an open breaker stays open: no feed
\* (a miss, a record that does not match) and no passing of time closes it.
C4_OpenStaysOpen ==
    [][(IsOpen(breaker) /\ last_op' # "reset") => IsOpen(breaker')]_vars

\* C4 witness: the breaker is open, never reset, although no trigger's
\* condition holds any more (a miss or window expiry came after it opened).
C4_Witness ==
    /\ IsOpen(breaker) /\ ~was_reset /\ last_op = "feed"
    /\ \A i \in 1..Len(breaker.triggers) : ~TriggerConditionNow(breaker.triggers[i])

\* C5: right after reset() the breaker is closed and every trigger's state
\* is cleared: counter 0, no window samples, fired latch down.
C5_ResetClearsTriggers ==
    last_op = "reset" =>
        /\ ~IsOpen(breaker)
        /\ \A i \in 1..Len(breaker.triggers) :
              /\ breaker.triggers[i].c = 0
              /\ breaker.triggers[i].buf = <<>>
              /\ ~TriggerFired(breaker.triggers[i])

\* C5, second part: a breaker that was reset is open only if the records
\* fed after the reset satisfy a trigger on their own; here: a reset
\* Consecutive(n) breaker is not reopened by a miss.
C5_MissAfterResetKeepsClosed ==
    (OnlyConsecutive /\ was_reset /\ last_op = "feed"
        /\ hist # <<>> /\ hist[Len(hist)].hit = 0
        /\ breaker.triggers[1].c = 0)
    => ~IsOpen(breaker)


\* ------------------------------------------------ load generator claims

\* The lifecycle records that carry stage id s: those the collector has
\* appended to metrics and those still on its queue.
RecordsOf(s) ==
    Cardinality({i \in 1..Len(metrics) : metrics[i] = s})
    + Cardinality({i \in 1..Len(collector_queue) :
                      /\ ~collector_queue[i].none
                      /\ collector_queue[i].stage_id = s})

\* C1: for every stage that ended with status completed the number of
\* lifecycle records carrying its stage id equals its num_requests; for
\* every stage that ended with status failed it is at most num_requests.
C1_RecordsPerStage ==
    \A s \in StageIds :
        /\ stage_runtime_info[s] = "completed" => RecordsOf(s) = NumRequestsOf(s)
        /\ stage_runtime_info[s] = "failed" => RecordsOf(s) <= NumRequestsOf(s)

\* The run is over and collected, one stage completed with all its records
\* and another failed with fewer.
C1_Witness ==
    /\ collector_done
    /\ \E s \in StageIds :
          stage_runtime_info[s] = "completed" /\ RecordsOf(s) = NumRequestsOf(s)
    /\ \E s \in StageIds :
          stage_runtime_info[s] = "failed" /\ RecordsOf(s) < NumRequestsOf(s)

\* Once collect_metrics has ended every record is in metrics.
C1_AllCollected == collector_done => collector_queue = <<>>

\* C6: if the circuit breaker becomes open while stage s is running, stage
\* s ends with status failed.
C6_OpenFailsStage ==
    \A s \in opened_in : stage_runtime_info[s] \in {"none", "failed"}

\* C7: after the circuit breaker opened during stage s no stage with a
\* larger id is started: no request of a later stage is enqueued.
C7_OpenSkipsRemaining ==
    \A s \in opened_in : ~(stage_id > s /\ opc \in InRunStage /\ enq > 0)

\* C8: if SIGINT is observed by the polling loop of stage s, stage s ends
\* failed and no stage with a larger id is started.
C8_SigintLeavesLoop ==
    \A s \in sigint_polled :
        /\ stage_runtime_info[s] \in {"none", "failed"}
        /\ ~(stage_id > s /\ opc \in InRunStage /\ enq > 0)

\* The same for the stages of the stage loop alone (s >= 0).
C8_SigintLeavesStageLoop ==
    \A s \in sigint_polled :
        s >= 0 => /\ stage_runtime_info[s] \in {"none", "failed"}
                  /\ ~(stage_id > s /\ opc \in InRunStage /\ enq > 0)

\* C9: once cancel_signal has been set for a stage, no request of that
\* stage is sent (no task passes from its sleep to its HTTP call).
C9_NoSendAfterCancel ==
    [][(stage_id \in cancelled_stage)
          => active_requests_counter' <= active_requests_counter]_vars

\* Once the orchestrator has seen active_requests_counter at 0 and drained
\* the queue of a cancelled stage, no request of the stage is in flight.
C9_NothingInFlightAfterDrain ==
    (opc \in {"cancel_clear", "clear_phase", "join"} /\ stage_id \in cancelled_stage)
        => active_requests_counter = 0

\* Cancelled attempts emit no record: a step that ends a cancelled task
\* leaves the collector's queue alone.
C9_CancelledEmitNothing ==
    [][\A w \in Workers : \A i \in 1..Len(tasks[w]) :
          (tasks[w][i].cancel /\ tasks'[w][i].st = "done"
             /\ Len(tasks'[w]) = Len(tasks[w]))
          => collector_queue' = collector_queue]_vars

\* C10: after cancel_signal is set, active_requests_counter reaches 0 and
\* run_stage returns, even if no in-flight request completes on its own.
C10_CancelReturns == cancel_signal ~> (opc = "stage_done")

\* The state C10 gets stuck in: the worker waits for a permit of its full
\* semaphore, so it never looks at cancel_signal, while its tasks are in
\* flight and the orchestrator waits for active_requests_counter to be 0.
C10_NeverStuckOnSemaphore ==
    ~(/\ cancel_signal
      /\ opc = "wait_active"
      /\ \A w \in Workers :
            /\ wpc[w] = "acquire"
            /\ permits[w] = 0
            /\ \A i \in 1..Len(tasks[w]) :
                  tasks[w][i].st = "inflight" /\ ~tasks[w][i].cancel)


\* The request tasks of worker w that have not ended: sleeping until their
\* scheduled time or executing the HTTP call.
Outstanding(w) ==
    Cardinality({i \in 1..Len(tasks[w]) : tasks[w][i].st # "done"})

\* C11: each worker's number of outstanding request tasks is at most the
\* size of its current semaphore, and a worker that is fetching an item
\* holds a permit no task has: with all permits taken by tasks it fetches
\* nothing.
C11_SemaphoreCaps ==
    \A w \in Workers :
        /\ Outstanding(w) <= current_concurrency[w]
        /\ wpc[w] = "get" => Outstanding(w) < current_concurrency[w]
        /\ Outstanding(w) + permits[w] + (IF wpc[w] = "get" THEN 1 ELSE 0)
              <= current_concurrency[w]

\* A worker whose semaphore is full waits in acquire while the queue still
\* holds an item.
C11_Witness ==
    \E w \in Workers :
        /\ wpc[w] = "acquire"
        /\ Outstanding(w) = current_concurrency[w]
        /\ request_queue # <<>>

\* C11 for a semaphore a worker has replaced (concurrent load type).
C11_WitnessResized ==
    \E w \in Workers :
        /\ current_concurrency[w] # WorkerMaxConcurrency
        /\ wpc[w] = "acquire"
        /\ Outstanding(w) = StageRequests


\* The sum of the shared max concurrency values of the workers 0..(n - 1).
RECURSIVE SumConcurrency(_)
SumConcurrency(n) ==
    IF n = 0 THEN 0 ELSE shared_max_concurrency[n - 1] + SumConcurrency(n - 1)

\* C12: while a stage of the concurrent load type with concurrency_level c
\* runs, the per-worker values written by _set_worker_concurrency sum to c.
C12_ConcurrencySumsToLevel ==
    (load_type = "concurrent" /\ opc \in InRunStage)
        => SumConcurrency(NumWorkers) = stage_concurrency[stage_id]

\* ... so that the number of in-flight requests never exceeds c.
C12_InFlightAtMostLevel ==
    (load_type = "concurrent" /\ opc \in InRunStage)
        => active_requests_counter <= stage_concurrency[stage_id]

\* C13: in the concurrent load type a worker handles a request of stage s
\* only under a semaphore of the size the orchestrator assigned for stage s:
\* it has replaced its semaphore before it dequeues a request of the stage.
C13_ResizedBeforeDequeue ==
    load_type = "concurrent" =>
        \A w \in Workers : \A i \in 1..Len(tasks[w]) :
            tasks[w][i].st # "done" =>
                current_concurrency[w] =
                    SetWorkerConcurrency(stage_concurrency[tasks[w][i].stage_id],
                                         NumWorkers, w)

\* The same for the stages after the first.
C13_ResizedBeforeDequeueLater ==
    load_type = "concurrent" =>
        \A w \in Workers : \A i \in 1..Len(tasks[w]) :
            (tasks[w][i].st # "done" /\ tasks[w][i].stage_id > 0) =>
                current_concurrency[w] =
                    SetWorkerConcurrency(stage_concurrency[tasks[w][i].stage_id],
                                         NumWorkers, w)


\* The stage ids of the records waiting on the collector's queue, in order.
RECURSIVE QueuedRecords(_)
QueuedRecords(q) ==
    IF q = <<>> THEN <<>>
    ELSE IF Head(q).none THEN QueuedRecords(Tail(q))
    ELSE <<Head(q).stage_id>> \o QueuedRecords(Tail(q))

\* C14: every record put on the collector's queue is consumed exactly once:
\* the collected vector followed by the records still queued is the sequence
\* of the records put, in their order; each collected record was fed to the
\* breaker once and acknowledged; the consumer ends only on the sentinel,
\* with nothing left behind.
C14_EveryRecordCollectedOnce ==
    /\ metrics \o QueuedRecords(collector_queue) = put_log
    /\ fed = Len(metrics)
    /\ collector_unacked = Len(collector_queue)
    /\ collector_done =>
          /\ opc = "await_collector"
          /\ collector_queue = <<>>
          /\ metrics = put_log

\* The collector has ended after records of two stages, failed ones among
\* them (the breaker is open).
C14_Witness ==
    /\ collector_done
    /\ Len(metrics) > StageRequests
    /\ \E i \in 1..Len(metrics) : metrics[i] # metrics[1]
    /\ IsOpen(breaker)

\* ------------------------------------------- one request's timestamps
\* Largest reading of time.perf_counter().
MaxClock == 4
\* Largest number of streamed messages of one response.
MaxTokens == 2

\* The run is not started while a component is specified on its own.
LoadGeneratorIdle ==
    /\ breaker = NewBreaker(<<Consecutive(BreakerThreshold)>>)
    /\ matches_n = 1
    /\ rules_n = 1
    /\ now = 0
    /\ hist = <<>>
    /\ fed = 0
    /\ was_reset = FALSE
    /\ last_op = "init"
    /\ sweep_config = FALSE
    /\ load_type = "constant"
    /\ stage_concurrency = NoConcurrency
    /\ LoadGeneratorStart

\* schedule_client's sleep_time, made to start at once.
SleepTime_NoWait(rt, ct) == 0

\* sleep_time = request_time - current_time
SleepTime(rt, ct) == rt - ct

\* RequestLifecycleMetric, its timestamps only.
RequestLifecycleMetric(sched, st, en, times, err) ==
    [scheduled_time |-> sched, start_time |-> st, end_time |-> en,
     output_token_times |-> times, error |-> err]

\* A worker has dequeued an item whose scheduled time may lie ahead of the
\* clock or behind it.
InitTime ==
    /\ perf_counter \in 0..2
    /\ request_time \in 0..MaxClock
    /\ streaming \in BOOLEAN
    /\ rpc = "created"
    /\ current_time = 0
    /\ start = 0
    /\ output_token_times = <<>>
    /\ lifecycle = <<>>
    /\ TimerIdle
    /\ SummaryIdle
    /\ MergeIdle
    /\ QueueIdle
    /\ SessionIdle
    /\ ReplayIdle
    /\ StreamIdle
    /\ LoadGeneratorIdle

\* The clock runs on between any two statements.
Elapse ==
    /\ perf_counter < MaxClock
    /\ perf_counter' = perf_counter + 1
    /\ UNCHANGED <<request_time, streaming, rpc, current_time, start,
                   output_token_times, lifecycle>>
    /\ UNCHANGED <<cbvars, lgvars, timervars, sumvars, mergevars, queuevars, sessionvars, replayvars, ssevars>>

\* schedule_client reads the clock and sleeps if the scheduled time is ahead.
ScheduleClient ==
    /\ rpc = "created"
    /\ current_time' = perf_counter
    /\ rpc' = IF SleepTime(request_time, perf_counter) > 0
              THEN "sleeping" ELSE "awake"
    /\ UNCHANGED <<perf_counter, request_time, streaming, start,
                   output_token_times, lifecycle>>
    /\ UNCHANGED <<cbvars, lgvars, timervars, sumvars, mergevars, queuevars, sessionvars, replayvars, ssevars>>

\* await sleep(sleep_time) returns once sleep_time has passed since the
\* clock was read (the sleep lasts at least its delay).
SleepReturns ==
    /\ rpc = "sleeping"
    /\ perf_counter >= current_time + SleepTime(request_time, current_time)
    /\ rpc' = "awake"
    /\ UNCHANGED <<perf_counter, request_time, streaming, current_time, start,
                   output_token_times, lifecycle>>
    /\ UNCHANGED <<cbvars, lgvars, timervars, sumvars, mergevars, queuevars, sessionvars, replayvars, ssevars>>

\* process_request builds the payload, reads start and posts the request.
ProcessRequest ==
    /\ rpc = "awake"
    /\ start' = perf_counter
    /\ rpc' = "posted"
    /\ UNCHANGED <<perf_counter, request_time, streaming, current_time,
                   output_token_times, lifecycle>>
    /\ UNCHANGED <<cbvars, lgvars, timervars, sumvars, mergevars, queuevars, sessionvars, replayvars, ssevars>>

\* process_response, streaming: one more message, stamped as it is split off.
StreamMessage ==
    /\ rpc = "posted"
    /\ streaming
    /\ Len(output_token_times) < MaxTokens
    /\ output_token_times' = Append(output_token_times, perf_counter)
    /\ UNCHANGED <<perf_counter, request_time, streaming, rpc, current_time,
                   start, lifecycle>>
    /\ UNCHANGED <<cbvars, lgvars, timervars, sumvars, mergevars, queuevars, sessionvars, replayvars, ssevars>>

\* The response has been read: the record carries process_response's info,
\* and an error if the status is not 200.
RecordResponse ==
    /\ rpc = "posted"
    /\ \E err \in BOOLEAN :
          lifecycle' = <<RequestLifecycleMetric(request_time, start, perf_counter,
                                                output_token_times, err)>>
    /\ rpc' = "recorded"
    /\ UNCHANGED <<perf_counter, request_time, streaming, current_time, start,
                   output_token_times>>
    /\ UNCHANGED <<cbvars, lgvars, timervars, sumvars, mergevars, queuevars, sessionvars, replayvars, ssevars>>

\* An exception inside the try: the record carries process_failure's info,
\* an InferenceInfo() without token times.
RecordException ==
    /\ rpc = "posted"
    /\ lifecycle' = <<RequestLifecycleMetric(request_time, start, perf_counter,
                                             <<>>, TRUE)>>
    /\ rpc' = "recorded"
    /\ UNCHANGED <<perf_counter, request_time, streaming, current_time, start,
                   output_token_times>>
    /\ UNCHANGED <<cbvars, lgvars, timervars, sumvars, mergevars, queuevars, sessionvars, replayvars, ssevars>>

\* The task is cancelled at one of its awaits: no record.
RequestCancelled ==
    /\ rpc \in {"sleeping", "posted"}
    /\ rpc' = "cancelled"
    /\ UNCHANGED <<perf_counter, request_time, streaming, current_time, start,
                   output_token_times, lifecycle>>
    /\ UNCHANGED <<cbvars, lgvars, timervars, sumvars, mergevars, queuevars, sessionvars, replayvars, ssevars>>

NextTime ==
    \/ Elapse
    \/ ScheduleClient
    \/ SleepReturns
    \/ ProcessRequest
    \/ StreamMessage
    \/ RecordResponse
    \/ RecordException
    \/ RequestCancelled

SpecTime == InitTime /\ [][NextTime]_vars

RECURSIVE NonDecreasing(_)
NonDecreasing(q) ==
    IF Len(q) < 2 THEN TRUE
    ELSE q[1] <= q[2] /\ NonDecreasing(Tail(q))

C15_WitnessLate ==
    /\ Len(lifecycle) = 1
    /\ request_time < current_time
    /\ lifecycle[1].start_time = current_time

\* ------------------------------------------------- the load timers
\* One second (the 1.0 of PoissonLoadTimer), in clock units.
OneSecond == 2
\* Largest value drawn from rand.exponential(), in clock units.
MaxGap == 2
\* Largest value drawn from rand.poisson().
MaxCount == 2
\* Largest int(rate * duration) of the stage.
MaxRateRequests == 3
\* Largest number of data lines of a trace file, and its largest timestamp.
MaxTraceLines == 2
MaxTraceTs == 3

\* A data line of the trace file: well-formed with its timestamp, or one
\* load_traces skips (empty, or raising while it is parsed).
TraceLines == [ok : BOOLEAN, ts : 1..MaxTraceTs]

\* Trace files, their well-formed lines in the order of their timestamps.
TraceFiles ==
    {f \in UNION {[1..n -> TraceLines] : n \in 0..MaxTraceLines} :
        /\ \A i \in 1..Len(f) : ~f[i].ok => f[i].ts = 1
        /\ \A i, j \in 1..Len(f) :
              (i < j /\ f[i].ok /\ f[j].ok) => f[i].ts <= f[j].ts}

\* load_traces: the timestamps of the lines kept, less initial_timestamp,
\* which is the first data line's timestamp if that line is kept and 0 if not.
LoadTraces(f) ==
    LET initial_timestamp == IF Len(f) > 0 /\ f[1].ok THEN f[1].ts ELSE 0
        kept == SelectSeq(f, LAMBDA l : l.ok)
    IN  [i \in 1..Len(kept) |-> kept[i].ts - initial_timestamp]

\* get_request_count of the trace-backed RandomDataGenerator.
GetRequestCount(f) == Len(LoadTraces(f))

\* run_stage's num_requests.
NumRequests(has_trace, f, n) == IF has_trace THEN GetRequestCount(f) ELSE n

\* PoissonLoadTimer's yield for a second without requests; next_time is
\* left as it was.
IdleSecond(t) == [yield |-> t + OneSecond, next_time |-> t]

\* A stage is about to be scheduled.  load.trace and data.trace name the
\* same file when both are configured.
InitTimer ==
    /\ tpc = "run_stage"
    /\ timer \in {[NoTimer EXCEPT !.type = ty] :
                     ty \in {"constant", "poisson", "trace_replay"}}
    /\ datagen_trace \in BOOLEAN
    /\ trace_file \in IF timer.type = "trace_replay" \/ datagen_trace
                      THEN TraceFiles ELSE {<<>>}
    /\ rate_requests \in 0..MaxRateRequests
    /\ num_requests = 0
    /\ scheduled = <<>>
    /\ TimeIdle
    /\ SummaryIdle
    /\ MergeIdle
    /\ QueueIdle
    /\ SessionIdle
    /\ ReplayIdle
    /\ StreamIdle
    /\ LoadGeneratorIdle

\* run_stage: get_timer, start_time, num_requests, timer.start_timer(start_time).
GetTimer ==
    /\ tpc = "run_stage"
    /\ tpc' = "enqueue"
    /\ timer' = [timer EXCEPT !.next_time = OneSecond]
    /\ num_requests' = NumRequests(datagen_trace, trace_file, rate_requests)
    /\ UNCHANGED <<trace_file, datagen_trace, rate_requests, scheduled>>
    /\ UNCHANGED <<cbvars, lgvars, timevars, sumvars, mergevars, queuevars, sessionvars, replayvars, ssevars>>

\* One turn of the enqueue loop with the ConstantLoadTimer.
EnqueueConstant ==
    /\ tpc = "enqueue"
    /\ Len(scheduled) < num_requests
    /\ timer.type = "constant"
    /\ \E gap \in 0..MaxGap :
          /\ timer' = [timer EXCEPT !.next_time = @ + gap]
          /\ scheduled' = Append(scheduled, timer.next_time + gap)
    /\ UNCHANGED <<tpc, trace_file, datagen_trace, rate_requests, num_requests>>
    /\ UNCHANGED <<cbvars, lgvars, timevars, sumvars, mergevars, queuevars, sessionvars, replayvars, ssevars>>

\* Of the PoissonLoadTimer the model also keeps, for the second drawn last,
\* the draw (req_count, -1 before the first), next_time at the draw (base)
\* and the number of timestamps yielded since (emitted).

\* One turn with the PoissonLoadTimer when rand.poisson() gives no request
\* for the next second.
EnqueuePoissonIdle ==
    /\ tpc = "enqueue"
    /\ Len(scheduled) < num_requests
    /\ timer.type = "poisson"
    /\ timer.left = 0
    /\ timer' = [timer EXCEPT !.next_time = IdleSecond(@).next_time,
                              !.req_count = 0,
                              !.base = timer.next_time,
                              !.emitted = 1]
    /\ scheduled' = Append(scheduled, IdleSecond(timer.next_time).yield)
    /\ UNCHANGED <<tpc, trace_file, datagen_trace, rate_requests, num_requests>>
    /\ UNCHANGED <<cbvars, lgvars, timevars, sumvars, mergevars, queuevars, sessionvars, replayvars, ssevars>>

\* One turn with the PoissonLoadTimer: a new second with req_count requests
\* when the last one is used up, then the next of the second's requests.
EnqueuePoisson ==
    /\ tpc = "enqueue"
    /\ Len(scheduled) < num_requests
    /\ timer.type = "poisson"
    /\ \E req_count \in 1..MaxCount, gap \in 0..MaxGap :
          /\ timer' = [timer EXCEPT
                          !.next_time = @ + gap,
                          !.left = IF @ = 0 THEN req_count - 1 ELSE @ - 1,
                          !.req_count = IF timer.left = 0 THEN req_count ELSE @,
                          !.base = IF timer.left = 0 THEN timer.next_time ELSE @,
                          !.emitted = IF timer.left = 0 THEN 1 ELSE @ + 1]
          /\ scheduled' = Append(scheduled, timer.next_time + gap)
    /\ UNCHANGED <<tpc, trace_file, datagen_trace, rate_requests, num_requests>>
    /\ UNCHANGED <<cbvars, lgvars, timevars, sumvars, mergevars, queuevars, sessionvars, replayvars, ssevars>>

\* One turn with the TraceReplayLoadTimer:
\* initial + (trace_ts[i] - trace_ts[0]) over the list load_traces returns.
EnqueueTrace ==
    /\ tpc = "enqueue"
    /\ Len(scheduled) < num_requests
    /\ timer.type = "trace_replay"
    /\ timer.index < Len(LoadTraces(trace_file))
    /\ timer' = [timer EXCEPT !.index = @ + 1]
    /\ scheduled' = Append(scheduled,
          timer.next_time + (LoadTraces(trace_file)[timer.index + 1]
                             - LoadTraces(trace_file)[1]))
    /\ UNCHANGED <<tpc, trace_file, datagen_trace, rate_requests, num_requests>>
    /\ UNCHANGED <<cbvars, lgvars, timevars, sumvars, mergevars, queuevars, sessionvars, replayvars, ssevars>>

\* The TraceReplayLoadTimer ends with its trace: next() raises in run_stage.
TraceExhausted ==
    /\ tpc = "enqueue"
    /\ Len(scheduled) < num_requests
    /\ timer.type = "trace_replay"
    /\ timer.index = Len(LoadTraces(trace_file))
    /\ tpc' = "raised"
    /\ UNCHANGED <<timer, trace_file, datagen_trace, rate_requests,
                   num_requests, scheduled>>
    /\ UNCHANGED <<cbvars, lgvars, timevars, sumvars, mergevars, queuevars, sessionvars, replayvars, ssevars>>

\* run_stage, before its polling loop:
\* prog = min(1.0, max(timeout_progress, finished_requests_counter.value / num_requests))
\* The division of the two integers raises ZeroDivisionError for num_requests 0.
ProgressRaises(n) == n = 0

\* The enqueue loop has made its num_requests turns; the progress bar is
\* set up for the polling loop.
EnqueueEnd ==
    /\ tpc = "enqueue"
    /\ Len(scheduled) = num_requests
    /\ tpc' = IF ProgressRaises(num_requests) THEN "raised" ELSE "polling"
    /\ UNCHANGED <<timer, trace_file, datagen_trace, rate_requests,
                   num_requests, scheduled>>
    /\ UNCHANGED <<cbvars, lgvars, timevars, sumvars, mergevars, queuevars, sessionvars, replayvars, ssevars>>

NextTimer ==
    \/ GetTimer
    \/ EnqueueConstant
    \/ EnqueuePoissonIdle
    \/ EnqueuePoisson
    \/ EnqueueTrace
    \/ TraceExhausted
    \/ EnqueueEnd

SpecTimer == InitTimer /\ [][NextTimer]_vars

\* C16: within a stage the scheduled times put on the queue never decrease
\* in the order they are put, whichever timer the stage runs with.
C16_ScheduledMonotonic == NonDecreasing(scheduled)

\* The ConstantLoadTimer and the replay of a trace in timestamp order do
\* keep the order.
C16_ConstantAndTraceMonotonic ==
    timer.type \in {"constant", "trace_replay"} => NonDecreasing(scheduled)

\* A stage of three requests scheduled by the ConstantLoadTimer at three
\* different times.
C16_ConstantWitness ==
    /\ timer.type = "constant"
    /\ tpc = "polling"
    /\ Len(scheduled) = MaxRateRequests
    /\ scheduled[1] < scheduled[2]
    /\ scheduled[2] < scheduled[3]

\* C19: with trace replay the stage enqueues as many requests as the trace
\* has entries, whatever its rate and duration, and the i-th scheduled time
\* is initial + (trace_ts[i] - trace_ts[0]).
C19_TraceCountAuthoritative ==
    timer.type = "trace_replay" =>
        /\ tpc \in {"enqueue", "polling", "raised"} =>
              num_requests = Len(LoadTraces(trace_file))
        /\ tpc = "polling" => Len(scheduled) = Len(LoadTraces(trace_file))
        /\ \A i \in 1..Len(scheduled) :
              scheduled[i] = OneSecond + (LoadTraces(trace_file)[i]
                                          - LoadTraces(trace_file)[1])

\* The count follows the trace when the data generator is trace-backed,
\* with any timer.
C19_DatagenTraceCount ==
    (datagen_trace /\ tpc = "polling") =>
        Len(scheduled) = Len(LoadTraces(trace_file))

\* The times the replay schedules are the trace's, shifted.
C19_TraceTimestamps ==
    timer.type = "trace_replay" =>
        \A i \in 1..Len(scheduled) :
            scheduled[i] = OneSecond + (LoadTraces(trace_file)[i]
                                        - LoadTraces(trace_file)[1])

\* load_traces returns offsets from the first entry kept.
C19_OffsetsFromFirstEntry ==
    LoadTraces(trace_file) # <<>> => LoadTraces(trace_file)[1] = 0

\* A trace of two entries replayed in full by a trace-backed stage.
C19_ReplayWitness ==
    /\ timer.type = "trace_replay"
    /\ datagen_trace
    /\ tpc = "polling"
    /\ Len(scheduled) = MaxTraceLines
    /\ scheduled[1] < scheduled[2]

\* ------------------------------------------------- summarize_requests
\* Largest number of records summarized, and their largest timestamp.
MaxRecords == 3
MaxRecordTime == 2

\* The records a report may be given: error set or None, start_time <= end_time.
LifecycleMetrics ==
    {m \in [error : BOOLEAN, start_time : 0..MaxRecordTime,
            end_time : 0..MaxRecordTime, stage_id : 0..(NumStages - 1)] :
        m.start_time <= m.end_time}

\* all_failed, with the failed records left out of every block.
AllFailed_Dropped(ms) == <<>>

\* all_successful = [x for x in metrics if x.error is None]
AllSuccessful(ms) == SelectSeq(ms, LAMBDA x : ~x.error)

\* all_failed = [x for x in metrics if x.error is not None]
AllFailed(ms) == SelectSeq(ms, LAMBDA x : x.error)

Times(ms, field) == {ms[i][field] : i \in 1..Len(ms)}

Max(S) == CHOOSE x \in S : \A y \in S : y <= x

Min(S) == CHOOSE x \in S : \A y \in S : x <= y

\* total_time and send_duration
TotalTime(ms) == Max(Times(ms, "end_time")) - Min(Times(ms, "start_time"))

SendDuration(ms) == Max(Times(ms, "start_time")) - Min(Times(ms, "start_time"))

\* summarize_requests raises instead of returning: max() of an empty list,
\* a division by a total_time or (with stage_rate) a send_duration of 0.
SummarizeRaises(ms, rate_given) ==
    IF ms = <<>> THEN TRUE
    ELSE (rate_given /\ SendDuration(ms) = 0) \/ TotalTime(ms) = 0

\* The three counts of the ResponsesSummary returned.
ResponsesSummary(ms) ==
    [load_summary_count |-> Len(ms),
     successes_count |-> Len(AllSuccessful(ms)),
     failures_count |-> Len(AllFailed(ms))]

InitSummary ==
    /\ spc = "collecting"
    /\ records = <<>>
    /\ stage_rate \in BOOLEAN
    /\ summary = <<>>
    /\ reports = <<>>
    /\ TimeIdle
    /\ TimerIdle
    /\ MergeIdle
    /\ QueueIdle
    /\ SessionIdle
    /\ ReplayIdle
    /\ StreamIdle
    /\ LoadGeneratorIdle

\* One more record has been collected.
AddRecord ==
    /\ spc = "collecting"
    /\ Len(records) < MaxRecords
    /\ \E m \in LifecycleMetrics : records' = Append(records, m)
    /\ UNCHANGED <<spc, stage_rate, summary, reports>>
    /\ UNCHANGED <<cbvars, lgvars, timevars, timervars, mergevars, queuevars, sessionvars, replayvars, ssevars>>

\* summarize_requests(records, stage_rate) returns its summary.
SummarizeRequests ==
    /\ spc = "collecting"
    /\ ~SummarizeRaises(records, stage_rate)
    /\ summary' = <<ResponsesSummary(records)>>
    /\ spc' = "summarized"
    /\ UNCHANGED <<records, stage_rate, reports>>
    /\ UNCHANGED <<cbvars, lgvars, timevars, timervars, mergevars, queuevars, sessionvars, replayvars, ssevars>>

\* summarize_requests(records, stage_rate) raises.
SummarizeRequestsRaises ==
    /\ spc = "collecting"
    /\ SummarizeRaises(records, stage_rate)
    /\ spc' = "raised"
    /\ UNCHANGED <<records, stage_rate, summary, reports>>
    /\ UNCHANGED <<cbvars, lgvars, timevars, timervars, mergevars, queuevars, sessionvars, replayvars, ssevars>>

\* stage_buckets[s]: the records of stage s, in order.
StageBuckets(ms, s) == SelectSeq(ms, LAMBDA x : x.stage_id = s)

\* The stages that have a bucket.
BucketStages(ms) == {ms[i].stage_id : i \in 1..Len(ms)}

\* generate_reports raises: one of its summarize_requests calls does, the
\* one for the summary (no stage_rate) or one for a stage (with the rate of
\* its StageRuntimeInfo).
GenerateReportsRaises(ms) ==
    IF ms = <<>> THEN FALSE
    ELSE \/ SummarizeRaises(ms, FALSE)
         \/ \E s \in BucketStages(ms) : SummarizeRaises(StageBuckets(ms, s), TRUE)

\* generate_reports with request_lifecycle.summary and per_stage set (their
\* defaults): the summary report if there are records, and a report for
\* every stage that has a bucket.
GenerateReports ==
    /\ spc = "collecting"
    /\ ~GenerateReportsRaises(records)
    /\ reports' = <<[summary |-> records # <<>>, stages |-> BucketStages(records)]>>
    /\ spc' = "reported"
    /\ UNCHANGED <<records, stage_rate, summary>>
    /\ UNCHANGED <<cbvars, lgvars, timevars, timervars, mergevars, queuevars, sessionvars, replayvars, ssevars>>

\* generate_reports is left by the exception: no report is returned.
GenerateReportsFails ==
    /\ spc = "collecting"
    /\ GenerateReportsRaises(records)
    /\ spc' = "reports_raised"
    /\ UNCHANGED <<records, stage_rate, summary, reports>>
    /\ UNCHANGED <<cbvars, lgvars, timevars, timervars, mergevars, queuevars, sessionvars, replayvars, ssevars>>

NextSummary ==
    \/ AddRecord
    \/ SummarizeRequests
    \/ SummarizeRequestsRaises
    \/ GenerateReports
    \/ GenerateReportsFails

SpecSummary == InitSummary /\ [][NextSummary]_vars

\* C20: in every summary summarize_requests returns for a non-empty list,
\* successes.count + failures.count = load_summary.count, a record counting
\* as a failure exactly if its error is set and as a success otherwise.
C20_CountsAddUp ==
    \A i \in 1..Len(summary) :
        /\ summary[i].successes_count + summary[i].failures_count
              = summary[i].load_summary_count
        /\ summary[i].load_summary_count = Len(records)
        /\ summary[i].failures_count
              = Cardinality({k \in 1..Len(records) : records[k].error})
        /\ summary[i].successes_count
              = Cardinality({k \in 1..Len(records) : ~records[k].error})

\* A summary of three records, failed and successful ones among them.
C20_Witness ==
    /\ Len(summary) = 1
    /\ Len(records) = MaxRecords
    /\ summary[1].failures_count > 0
    /\ summary[1].successes_count > 0

\* A non-empty list for which no summary is returned.
C20_RaisesWitness ==
    /\ spc = "raised"
    /\ records # <<>>

\* ------------------------------------------------ exceptions and crashes
\* C17: no exception raised while one request is handled (lazy data
\* loading, payload building, the HTTP call, response parsing) escapes the
\* request's task or ends the worker loop: an attempt that is not cancelled
\* ends with its record, with error set if it failed.
C17_NoExceptionEscapes ==
    \A w \in Workers :
        /\ wpc[w] # "raised"
        /\ \A i \in 1..Len(tasks[w]) : ~tasks[w][i].raised

\* The part of C17 about the worker loop, with lazy data loading alone.
C17_LazyLoadingKeepsLoop ==
    \A w \in Workers :
        (\A i \in 1..Len(tasks[w]) : ~tasks[w][i].raised) => wpc[w] # "raised"

\* C18: if a worker process ends before stop_signal is set (it has raised
\* while it held an item it never acknowledged), the orchestrator notices
\* and ends the run: it does not wait for ever in run_stage's polling loop
\* or in request_queue.join().
C18_DeadWorkerEndsRun ==
    (\E w \in Workers : wpc[w] = "raised" /\ ~stop_signal) ~> (opc = "returned")

\* The orchestrator is in run_stage's polling loop, or waiting in join(),
\* with every task ended and the worker gone: nothing will change what it
\* waits for.
C18_WaitsForDeadWorker ==
    /\ opc \in {"poll", "poll_sleep", "join"}
    /\ \A w \in Workers : wpc[w] = "raised" /\ Outstanding(w) = 0
    /\ unfinished > 0
    /\ request_queue = <<>>

\* C21: the records collected are reported: for any non-empty vector of
\* records generate_reports returns the summary report and a report for
\* every stage that has a record, also when a stage has a single record or
\* records that all start at the same time.
C21_CollectedAreReported ==
    /\ spc # "reports_raised"
    /\ spc = "reported" =>
          /\ reports[1].summary = (records # <<>>)
          /\ reports[1].stages = BucketStages(records)

\* When generate_reports returns, its reports are the ones due.
C21_ReportsWhenReturned ==
    spc = "reported" =>
        /\ reports[1].summary = (records # <<>>)
        /\ reports[1].stages = BucketStages(records)

\* The summary and the report of a stage whose records started at different
\* times.
C21_ReportedWitness ==
    /\ spc = "reported"
    /\ reports[1].summary
    /\ reports[1].stages # {}

\* generate_reports raises for a vector whose summary alone can be computed:
\* a stage has one record, or records that start together.
C21_OneRecordStage ==
    /\ spc = "reports_raised"
    /\ ~SummarizeRaises(records, FALSE)
    /\ \E s \in BucketStages(records) : Len(StageBuckets(records, s)) = 1

\* ------------------------------------------------------- deep_merge
\* A nested dictionary is the set of its entries [p, v]: p the key path of a
\* value that is not a non-empty dictionary, v the value, EmptyDict for {}.
\* Largest scalar value of an entry.
MaxLeaf == 2
EmptyDict == 0

MergeKeys == {"a", "b"}

\* The key paths of dictionaries nested one level deep.
KeyPaths == {<<k>> : k \in MergeKeys} \cup (MergeKeys \X MergeKeys)

IsPrefix(q, p) == Len(q) <= Len(p) /\ SubSeq(p, 1, Len(q)) = q

TopKeys(d) == {e.p[1] : e \in d}

\* isinstance(d[k], dict)
IsDictAt(d, k) == \E e \in d : e.p[1] = k /\ (Len(e.p) > 1 \/ e.v = EmptyDict)

\* d[k], a dictionary
Sub(d, k) == {[p |-> Tail(e.p), v |-> e.v] : e \in {x \in d : x.p[1] = k /\ Len(x.p) > 1}}

\* {k: sub}
Under(k, sub) ==
    IF sub = {} THEN {[p |-> <<k>>, v |-> EmptyDict]}
    ELSE {[p |-> <<k>> \o e.p, v |-> e.v] : e \in sub}

\* {k: d[k]}
At(d, k) == {e \in d : e.p[1] = k}

\* The dictionaries without nested ones, and those nested one level deep.
FlatDicts ==
    UNION {{{[p |-> <<k>>, v |-> f[k]] : k \in S} : f \in [S -> 0..MaxLeaf]} :
              S \in SUBSET MergeKeys}

ValuesAt(k) ==
    {{}} \cup {{[p |-> <<k>>, v |-> x]} : x \in 0..MaxLeaf}
         \cup {Under(k, sub) : sub \in FlatDicts \ {{}}}

Dicts ==
    {UNION {c[k] : k \in MergeKeys} :
        c \in {x \in [MergeKeys -> UNION {ValuesAt(k) : k \in MergeKeys}] :
                  \A k \in MergeKeys : x[k] \in ValuesAt(k)}}

\* deep_merge with nested dictionaries replaced like any other value.
RECURSIVE DeepMerge_Shallow(_, _)
DeepMerge_Shallow(b, o) ==
    UNION {IF k \in TopKeys(o) THEN At(o, k) ELSE At(b, k) :
              k \in TopKeys(b) \cup TopKeys(o)}

\* deep_merge: result = base.copy(); for every key of override the merge of
\* the two values if both are dictionaries, override's value if not.
RECURSIVE DeepMerge(_, _)
DeepMerge(b, o) ==
    UNION {IF k \in TopKeys(o)
           THEN IF k \in TopKeys(b) /\ IsDictAt(b, k) /\ IsDictAt(o, k)
                THEN Under(k, DeepMerge(Sub(b, k), Sub(o, k)))
                ELSE At(o, k)
           ELSE At(b, k) :
              k \in TopKeys(b) \cup TopKeys(o)}

InitMerge ==
    /\ mpc = "start"
    /\ base \in Dicts
    /\ override \in Dicts
    /\ merged = {}
    /\ merged_again = {}
    /\ TimeIdle
    /\ TimerIdle
    /\ SummaryIdle
    /\ QueueIdle
    /\ SessionIdle
    /\ ReplayIdle
    /\ StreamIdle
    /\ LoadGeneratorIdle

\* merged = deep_merge(base, override)
Merge ==
    /\ mpc = "start"
    /\ merged' = DeepMerge(base, override)
    /\ mpc' = "merged"
    /\ UNCHANGED <<base, override, merged_again>>
    /\ UNCHANGED <<cbvars, lgvars, timevars, timervars, sumvars, queuevars, sessionvars, replayvars, ssevars>>

\* deep_merge(merged, override)
MergeAgain ==
    /\ mpc = "merged"
    /\ merged_again' = DeepMerge(merged, override)
    /\ mpc' = "again"
    /\ UNCHANGED <<base, override, merged>>
    /\ UNCHANGED <<cbvars, lgvars, timevars, timervars, sumvars, queuevars, sessionvars, replayvars, ssevars>>

NextMerge == Merge \/ MergeAgain

SpecMerge == InitMerge /\ [][NextMerge]_vars

\* The scalar entries of a dictionary, and the paths of all its nodes.
Scalars(d) == {e \in d : e.v # EmptyDict}

NodePaths(d) == {q \in KeyPaths : \E e \in d : IsPrefix(q, e.p)}

\* C22 as stated: the result has override's value at every key path of
\* override and base's value at every key path present only in base, and
\* merging the same override once more changes nothing.
C22_DeepMerge ==
    /\ mpc \in {"merged", "again"} =>
          /\ \A e \in Scalars(override) : e \in merged
          /\ \A e \in Scalars(base) : e.p \notin NodePaths(override) => e \in merged
    /\ mpc = "again" => merged_again = merged

\* base's value at path p is hidden by override: override has a scalar at
\* a prefix of p.
Hidden(p, o) == \E f \in Scalars(o) : IsPrefix(f.p, p)

\* C22, amended: the result has override's value at every key path of
\* override, and base's value at every key path present only in base unless
\* override has a value that is not a dictionary at a prefix of that path;
\* it has nothing else; merging the same override once more changes nothing.
C22_DeepMergeOverrideWins ==
    /\ mpc \in {"merged", "again"} =>
          /\ \A e \in Scalars(override) : e \in merged
          /\ \A e \in Scalars(base) :
                (e.p \notin NodePaths(override) /\ ~Hidden(e.p, override))
                    => e \in merged
          /\ \A e \in Scalars(merged) : e \in override \/ e \in base
          /\ \A e \in Scalars(base) : Hidden(e.p, override) =>
                (e \in merged => e \in override)
    /\ mpc = "again" => merged_again = merged

\* A nested merge, twice: both arguments have entries below "a", override
\* replaces one of base's and base keeps another.
C22_Witness ==
    /\ mpc = "again"
    /\ \E e \in base : e.p = <<"a", "a">> /\ e.v # EmptyDict /\ e \in merged
    /\ \E e \in override : e.p = <<"a", "b">> /\ e.v # EmptyDict
    /\ \E e \in base : e.p = <<"a", "b">> /\ e.v # EmptyDict /\ e \notin merged


\* ------------------------------------------------- run_stage's cleanup
\* The steps of run_stage's failure path, by the position of the orchestrator:
\* cancel_signal is set and request_phase still set while it waits for the
\* active requests and drains; the queue is empty once drained; cancel_signal
\* is cleared before request_phase is; join() comes last.
FailurePathOrder ==
    /\ opc \in {"wait_active", "drain", "cancel_clear"} =>
          cancel_signal /\ request_phase /\ stage_status = "running"
    /\ opc = "cancel_clear" => request_queue = <<>>
    /\ opc = "clear_phase" =>
          /\ ~cancel_signal /\ request_phase
          /\ stage_status = "failed" =>
                request_queue = <<>> /\ stage_id \in cancelled_stage
    /\ opc = "join" => ~cancel_signal /\ ~request_phase

\* C23: when run_stage returns, after success and after failure alike, the
\* queue is empty with every put acknowledged, active_requests_counter is 0,
\* cancel_signal and request_phase are clear; the failure path sets
\* cancel_signal, waits for the active requests, drains, clears
\* cancel_signal, clears request_phase and joins, in this order.
C23_CleanAtReturn ==
    /\ opc = "stage_done" =>
          /\ request_queue = <<>>
          /\ unfinished = 0
          /\ active_requests_counter = 0
          /\ ~cancel_signal
          /\ ~request_phase
    /\ FailurePathOrder

\* run_stage has returned from its failure path after requests were sent.
C23_Witness ==
    /\ opc = "stage_done"
    /\ stage_runtime_info[stage_id] = "failed"
    /\ stage_id \in cancelled_stage
    /\ put_log # <<>>

\* run_stage has returned from its success path.
C23_WitnessCompleted ==
    /\ opc = "stage_done"
    /\ stage_runtime_info[stage_id] = "completed"
    /\ Len(put_log) >= StageRequests


\* ------------------------------------------------- the status of a stage
\* The polling loop of the stage run_stage is in was left by its timeout or by
\* an open circuit breaker (timed_out) or by SIGINT, and not by its condition.
EndedEarly == timed_out \/ stage_id \in sigint_polled

\* C24: a stage for which run_stage has returned has one StageRuntimeInfo,
\* completed or failed; it is failed exactly when the polling loop was left
\* by the timeout, an open circuit breaker or SIGINT before all num_requests
\* requests had finished, and completed otherwise.
C24_StatusTellsHowStageEnded ==
    opc = "stage_done" =>
        /\ stage_runtime_info[stage_id] \in {"completed", "failed"}
        /\ stage_runtime_info[stage_id] = "failed" <=> EndedEarly

\* What run_stage does keep: a returned stage is completed or failed, an
\* early end always gives failed, and a stage that has not returned has no
\* StageRuntimeInfo.
C24_StatusSetOnReturn ==
    /\ opc = "stage_done" =>
          /\ stage_runtime_info[stage_id] \in {"completed", "failed"}
          /\ EndedEarly => stage_runtime_info[stage_id] = "failed"
          /\ stage_runtime_info[stage_id] = "completed" =>
                finished_requests_counter >= NumRequestsOf(stage_id)
    /\ \A s \in StageIds : stage_runtime_info[s] # "running"
    /\ opc \in InRunStage => stage_runtime_info[stage_id] = "none"

\* A stage has returned as failed after an early end.
C24_Witness ==
    /\ opc = "stage_done"
    /\ EndedEarly
    /\ stage_runtime_info[stage_id] = "failed"

\* All requests of the stage finished, the polling loop was left by its
\* condition, and the stage is failed: SIGINT arrived after the last finish.
C24_FailedThoughAllFinished ==
    /\ opc = "stage_done"
    /\ ~EndedEarly
    /\ stage_runtime_info[stage_id] = "failed"
    /\ Len(put_log) >= StageRequests


\* ------------------------------------------------- RequestQueue specification
\* Workers of the queue specification, items put, and the largest
\* prefered_worker_id a dataset gives.
NumQueueWorkers == 2

MaxQueueItems == 3

MaxPreferedWorkerId == 3

QueueWorkers == 0..(NumQueueWorkers - 1)

NumChannels == Len(channels)

\* RequestQueue.get_channel: self.queues[channel_id % self.num_channels]
GetChannel(channel_id) == channel_id % NumChannels

\* A plausible slip of put: the item goes to every channel whatever its id.
PutChannels_Broadcast(channel_id) == 0..(NumChannels - 1)

\* RequestQueue.put: queues_to_put = self.queues if channel_id == -1 else
\* [self.get_channel(channel_id)]
PutChannels(channel_id) ==
    IF channel_id = -1 THEN 0..(NumChannels - 1) ELSE {GetChannel(channel_id)}

\* The prefered_worker_id of the requests a dataset yields: the id of the
\* session's worker when the dataset requests affinity, and otherwise also
\* the default -1.
PreferedWorkerIds ==
    IF prefered_worker_requested THEN 0..MaxPreferedWorkerId
    ELSE (-1)..MaxPreferedWorkerId

\* mp_run: RequestQueue(num_workers if is_prefered_worker_requested() else 1)
\* and Worker(id, client, request_queue.get_channel(id), ...).
InitQueue ==
    /\ qpc = "putting"
    /\ prefered_worker_requested \in BOOLEAN
    /\ channels = [c \in 1..(IF prefered_worker_requested THEN NumQueueWorkers ELSE 1)
                     |-> <<>>]
    /\ channel_unfinished = [c \in 1..Len(channels) |-> 0]
    /\ dequeued = [w \in 1..NumQueueWorkers |-> <<>>]
    /\ acknowledged = <<>>
    /\ placed = <<>>
    /\ TimeIdle
    /\ TimerIdle
    /\ SummaryIdle
    /\ MergeIdle
    /\ SessionIdle
    /\ ReplayIdle
    /\ StreamIdle
    /\ LoadGeneratorIdle

\* run_stage: request_queue.put((stage_id, request_data, ...),
\* request_data.prefered_worker_id); seq numbers the puts.
QueuePut ==
    /\ qpc = "putting"
    /\ Len(placed) < MaxQueueItems
    /\ \E id \in PreferedWorkerIds :
          LET item == [seq |-> Len(placed) + 1, prefered_worker_id |-> id]
              to == PutChannels(id)
          IN  /\ channels' = [c \in 1..NumChannels |->
                                IF (c - 1) \in to THEN Append(channels[c], item)
                                                  ELSE channels[c]]
              /\ channel_unfinished' =
                    [c \in 1..NumChannels |->
                        IF (c - 1) \in to THEN channel_unfinished[c] + 1
                                          ELSE channel_unfinished[c]]
              /\ placed' = Append(placed, [prefered_worker_id |-> id, channels |-> to])
    /\ UNCHANGED <<qpc, prefered_worker_requested, dequeued, acknowledged>>
    /\ UNCHANGED <<cbvars, lgvars, timevars, timervars, sumvars, mergevars, sessionvars, replayvars, ssevars>>

\* Worker.loop: item = self.request_queue.get(timeout) on the worker's channel.
QueueGet(w) ==
    /\ qpc = "putting"
    /\ LET c == GetChannel(w) + 1
       IN  /\ channels[c] # <<>>
           /\ dequeued' = [dequeued EXCEPT ![w + 1] = Append(@, Head(channels[c]))]
           /\ channels' = [channels EXCEPT ![c] = Tail(@)]
    /\ UNCHANGED <<qpc, prefered_worker_requested, channel_unfinished,
                   acknowledged, placed>>
    /\ UNCHANGED <<cbvars, lgvars, timevars, timervars, sumvars, mergevars, sessionvars, replayvars, ssevars>>

\* schedule_client, finally: self.request_queue.task_done() once the request
\* has been executed.
QueueTaskDone(w) ==
    /\ dequeued[w + 1] # <<>>
    /\ acknowledged' = Append(acknowledged,
                              [seq |-> Head(dequeued[w + 1]).seq, worker |-> w])
    /\ dequeued' = [dequeued EXCEPT ![w + 1] = Tail(@)]
    /\ channel_unfinished' = [channel_unfinished EXCEPT ![GetChannel(w) + 1] = @ - 1]
    /\ UNCHANGED <<qpc, prefered_worker_requested, channels, placed>>
    /\ UNCHANGED <<cbvars, lgvars, timevars, timervars, sumvars, mergevars, sessionvars, replayvars, ssevars>>

\* RequestQueue.drain(): every channel is emptied, each item acknowledged.
QueueDrain ==
    /\ qpc = "putting"
    /\ channels' = [c \in 1..NumChannels |-> <<>>]
    /\ channel_unfinished' =
          [c \in 1..NumChannels |-> channel_unfinished[c] - Len(channels[c])]
    /\ qpc' = "drained"
    /\ UNCHANGED <<prefered_worker_requested, dequeued, acknowledged, placed>>
    /\ UNCHANGED <<cbvars, lgvars, timevars, timervars, sumvars, mergevars, sessionvars, replayvars, ssevars>>

\* RequestQueue.join(): returns once every channel has all puts acknowledged.
QueueJoin ==
    /\ qpc \in {"putting", "drained"}
    /\ \A c \in 1..NumChannels : channel_unfinished[c] = 0
    /\ qpc' = "joined"
    /\ UNCHANGED <<prefered_worker_requested, channels, channel_unfinished,
                   dequeued, acknowledged, placed>>
    /\ UNCHANGED <<cbvars, lgvars, timevars, timervars, sumvars, mergevars, sessionvars, replayvars, ssevars>>

NextQueue ==
    \/ QueuePut
    \/ \E w \in QueueWorkers : QueueGet(w)
    \/ \E w \in QueueWorkers : QueueTaskDone(w)
    \/ QueueDrain
    \/ QueueJoin

SpecQueue == InitQueue /\ [][NextQueue]_vars

\* The workers that have dequeued the item put as number k.
TakenBy(k) ==
    {w \in QueueWorkers :
        \/ \E i \in 1..Len(dequeued[w + 1]) : dequeued[w + 1][i].seq = k
        \/ \E i \in 1..Len(acknowledged) :
              acknowledged[i].seq = k /\ acknowledged[i].worker = w}

\* The number of times item k has been acknowledged by a worker.
TimesExecuted(k) ==
    Cardinality({i \in 1..Len(acknowledged) : acknowledged[i].seq = k})

C25_WitnessShared ==
    /\ ~prefered_worker_requested
    /\ \E i, j \in 1..Len(acknowledged) :
          acknowledged[i].worker = 1 /\ acknowledged[j].worker = 0


\* ------------------------------------------------- where the items are
\* The number of items held by request tasks of the workers 0..(n - 1).
RECURSIVE HeldByTasks(_)
HeldByTasks(n) ==
    IF n = 0 THEN 0 ELSE Outstanding(n - 1) + HeldByTasks(n - 1)

\* The counters of a stage in their ranges: finished_requests_counter at
\* most the stage's num_requests, active_requests_counter never negative and
\* at most the items held, never more task_done() calls than puts.
CountersInRange ==
    /\ opc \in InRunStage => finished_requests_counter <= NumRequestsOf(stage_id)
    /\ active_requests_counter >= 0
    /\ active_requests_counter <= HeldByTasks(NumWorkers)
    /\ unfinished >= 0

\* C26: during a stage every item enqueued by run_stage is queued, held by
\* one worker task, finished or drained: an item not yet acknowledged is in
\* the queue or held by a task, the items queued, held and finished are
\* never more than the items put, and the counters stay in their ranges.
C26_ItemsInOnePlace ==
    /\ unfinished = Len(request_queue) + HeldByTasks(NumWorkers)
    /\ opc \in InRunStage =>
          Len(request_queue) + HeldByTasks(NumWorkers) + finished_requests_counter
              <= enq
    /\ CountersInRange

\* The same while no worker has been ended by an exception of get_request.
C26_ItemsInOnePlaceWhileWorkersLive ==
    (\A w \in Workers : wpc[w] # "raised") => C26_ItemsInOnePlace

\* One item of the stage is queued, one is held by a task in flight.
C26_Witness ==
    /\ opc \in InRunStage
    /\ Len(request_queue) = 1
    /\ HeldByTasks(NumWorkers) = 1
    /\ active_requests_counter = 1

\* An item was dequeued and is neither held by a task nor acknowledged.
C26_ItemLost ==
    /\ unfinished > Len(request_queue) + HeldByTasks(NumWorkers)
    /\ \E w \in Workers : wpc[w] = "raised"


\* ------------------------------------------------- unmatched records
\* C27: a record for which no matches expression is truthy, an expression
\* that raises included, is ignored by feed(): the open flag and every
\* trigger's counter, window and latch are left as they were.
C27_UnmatchedIgnored ==
    [][(fed' = fed + 1 /\ hist' = hist) => breaker' = breaker]_vars

\* Consecutive(2) counts two hits in a row and is open although three
\* records were fed: the unmatched one neither counted nor reset the count.
C27_Witness ==
    /\ OnlyConsecutive /\ ~was_reset
    /\ breaker.triggers[1].n = 2
    /\ fed = 3
    /\ Len(hist) = 2
    /\ breaker.triggers[1].c = 2
    /\ IsOpen(breaker)


\* ------------------------------------------------- the Poisson scheduler
\* The timestamps the PoissonLoadTimer has yielded for the second drawn last.
EmittedThisSecond ==
    SubSeq(scheduled, Len(scheduled) - timer.emitted + 1, Len(scheduled))

\* C28: when the Poisson draw for a second is 0 no timestamp is emitted for
\* that second and the base timestamp advances by exactly one second; when it
\* is k > 0, k timestamps are emitted for it, none before its base.
C28_PoissonSecond ==
    (timer.type = "poisson" /\ timer.req_count >= 0) =>
        /\ timer.req_count = 0 =>
              /\ timer.emitted = 0
              /\ timer.next_time = timer.base + OneSecond
        /\ timer.req_count > 0 =>
              /\ timer.emitted + timer.left = timer.req_count
              /\ \A i \in 1..timer.emitted : EmittedThisSecond[i] >= timer.base

\* What the timer does keep: a second with k > 0 requests yields k timestamps
\* from its base on.
C28_BusySecond ==
    (timer.type = "poisson" /\ timer.req_count > 0) =>
        /\ timer.emitted + timer.left = timer.req_count
        /\ timer.emitted >= 1
        /\ \A i \in 1..timer.emitted : EmittedThisSecond[i] >= timer.base

\* A second with two requests has yielded both its timestamps.
C28_BusyWitness ==
    /\ timer.type = "poisson"
    /\ timer.req_count = 2
    /\ timer.emitted = 2
    /\ timer.left = 0

\* A second without requests has yielded a timestamp, one second after a
\* base that has not moved.
C28_IdleSecondEmits ==
    /\ timer.type = "poisson"
    /\ timer.req_count = 0
    /\ timer.emitted = 1
    /\ timer.next_time = timer.base
    /\ scheduled[Len(scheduled)] = timer.base + OneSecond


\* ------------------------------------------------- SIGINT between stages
\* The orchestrator is in the interval sleep after a stage that is not the
\* last, and the interrupt flag is set: SIGINT arrived during the sleep, for
\* with the flag set at the return of run_stage mp_run leaves the loop.
InterruptedInInterval ==
    opc = "interval" /\ interrupt_sig /\ stage_id + 1 < LenStages

\* C29: if the interrupt flag is set during the interval sleep after stage s,
\* stage s + 1 is not started: the sleep is not followed by the next turn of
\* the stage loop.
C29_NoStageAfterInterrupt ==
    [][InterruptedInInterval => opc' \notin {"stage_setup", "run_stage"}]_vars


\* ------------------------------------------------- the end of the workers
\* mp_run's last two statements have run: request_phase.set(), stop_signal.set().
TornDown == request_phase /\ stop_signal

\* C30: after the last stage, once request_phase and then stop_signal are
\* set, every worker whose loop is still running observes stop_signal and
\* leaves the loop on its own.
C30_WorkersStop ==
    TornDown ~> (\A w \in Workers : wpc[w] \in {"stopped", "raised"})

\* What the loop does keep: a worker that reads stop_signal at the head of
\* its outer loop after it was set stops.
C30_StopsAtLoopHead ==
    [][\A w \in Workers :
          (stop_signal /\ wpc[w] = "top" /\ wpc'[w] # "top") => wpc'[w] = "stopped"]_vars

\* stop_signal is set and a worker is inside its inner loop, whose test
\* reads request_phase and cancel_signal only.
C30_InnerLoopAfterStop ==
    /\ TornDown
    /\ ~cancel_signal
    /\ \E w \in Workers : wpc[w] = "acquire"


\* ------------------------------------------------- LocalUserSession specification
\* The requests of one user session that a worker runs as tasks of one event
\* loop: a step of the model is what a task does between two awaits.
NumSessionRequests == 4

SessionRequests == 1..NumSessionRequests

\* The positions at which a started request has not ended.
Pending == {"await_future", "woken", "await_lock", "lock_woken", "in_flight"}

\* The positions of a request inside get_context().
InGetContext == {"await_future", "woken", "await_lock", "lock_woken"}

\* A plausible slip of the lock: acquire() does not wait for the holder.
LockFree_IgnoresHolder(locked, waiters) == waiters = <<>>

\* asyncio.Lock.acquire takes the lock at once if it is not locked and no
\* waiter that has not been cancelled is queued.
LockFree(locked, waiters) == ~locked /\ waiters = <<>>

\* asyncio.Lock.release, _wake_up_first: the first waiter's future gets its
\* result unless it is done already.
WakeUpFirst(pcs, waiters) ==
    IF waiters # <<>> /\ pcs[Head(waiters)] = "await_lock"
    THEN [pcs EXCEPT ![Head(waiters)] = "lock_woken"]
    ELSE pcs

\* update_context up to its release(): the first future of _waiting_rounds
\* is taken and given its result; set_result raises InvalidStateError on the
\* future of a request that was cancelled while it awaited it.
UpdateContext(wr, pcs) ==
    IF wr = <<>> THEN [wr |-> wr, pcs |-> pcs, raised |-> FALSE]
    ELSE IF pcs[Head(wr)] = "cancelled"
    THEN [wr |-> Tail(wr), pcs |-> pcs, raised |-> TRUE]
    ELSE [wr |-> Tail(wr), pcs |-> [pcs EXCEPT ![Head(wr)] = "woken"],
          raised |-> FALSE]

\* A session whose requests have not been sent.
InitSession ==
    /\ req_pc = [r \in SessionRequests |-> "new"]
    /\ in_flight_locked = FALSE
    /\ lock_waiters = <<>>
    /\ waiting_rounds = <<>>
    /\ called = <<>>
    /\ obtained = <<>>
    /\ TimeIdle
    /\ TimerIdle
    /\ SummaryIdle
    /\ MergeIdle
    /\ QueueIdle
    /\ ReplayIdle
    /\ StreamIdle
    /\ LoadGeneratorIdle

\* await self._in_flight.acquire(); self._current_round += 1; return
Acquire(r) ==
    IF LockFree(in_flight_locked, lock_waiters)
    THEN /\ in_flight_locked' = TRUE
         /\ req_pc' = [req_pc EXCEPT ![r] = "in_flight"]
         /\ obtained' = Append(obtained, r)
         /\ UNCHANGED lock_waiters
    ELSE /\ lock_waiters' = Append(lock_waiters, r)
         /\ req_pc' = [req_pc EXCEPT ![r] = "await_lock"]
         /\ UNCHANGED <<in_flight_locked, obtained>>

\* process_request: to_payload calls get_context: with a waiting round or the
\* lock held the request queues a future and awaits it, else it acquires.
GetContext(r) ==
    /\ req_pc[r] = "new"
    /\ called' = Append(called, r)
    /\ IF waiting_rounds # <<>> \/ in_flight_locked
       THEN /\ waiting_rounds' = Append(waiting_rounds, r)
            /\ req_pc' = [req_pc EXCEPT ![r] = "await_future"]
            /\ UNCHANGED <<in_flight_locked, lock_waiters, obtained>>
       ELSE /\ Acquire(r)
            /\ UNCHANGED waiting_rounds
    /\ UNCHANGED <<cbvars, lgvars, timevars, timervars, sumvars, mergevars, queuevars, replayvars, ssevars>>

\* The task resumes from  await future  and goes on to acquire the lock.
FutureResumes(r) ==
    /\ req_pc[r] = "woken"
    /\ Acquire(r)
    /\ UNCHANGED <<waiting_rounds, called>>
    /\ UNCHANGED <<cbvars, lgvars, timevars, timervars, sumvars, mergevars, queuevars, replayvars, ssevars>>

\* The task resumes inside Lock.acquire: it leaves the waiters and holds the lock.
LockResumes(r) ==
    /\ req_pc[r] = "lock_woken"
    /\ lock_waiters' = SelectSeq(lock_waiters, LAMBDA w : w # r)
    /\ in_flight_locked' = TRUE
    /\ req_pc' = [req_pc EXCEPT ![r] = "in_flight"]
    /\ obtained' = Append(obtained, r)
    /\ UNCHANGED <<waiting_rounds, called>>
    /\ UNCHANGED <<cbvars, lgvars, timevars, timervars, sumvars, mergevars, queuevars, replayvars, ssevars>>

\* The request of the holder ends.  With a response, process_response calls
\* update_context; if that raises, or without a response, the except
\* Exception branch of process_request calls process_failure, which calls
\* update_context; if that raises the exception leaves process_request with
\* the lock still held.
RequestEnds(r) ==
    /\ req_pc[r] = "in_flight"
    /\ \E ok \in BOOLEAN :
          LET first  == UpdateContext(waiting_rounds, req_pc)
              second == UpdateContext(first.wr, first.pcs)
              last   == IF first.raised /\ ok THEN second ELSE first
          IN  /\ waiting_rounds' = last.wr
              /\ IF last.raised
                 THEN /\ req_pc' = [last.pcs EXCEPT ![r] = "raised"]
                      /\ UNCHANGED in_flight_locked
                 ELSE /\ req_pc' =
                            WakeUpFirst([last.pcs EXCEPT ![r] =
                                            IF ok /\ ~first.raised
                                            THEN "done" ELSE "failed"],
                                        lock_waiters)
                      /\ in_flight_locked' = FALSE
    /\ UNCHANGED <<lock_waiters, called, obtained>>
    /\ UNCHANGED <<cbvars, lgvars, timevars, timervars, sumvars, mergevars, queuevars, replayvars, ssevars>>

\* Worker.loop on cancel_signal: for task in tasks: task.cancel().  Every
\* request under way gets CancelledError at its await: process_request's
\* except Exception does not catch it and schedule_client passes.  A future
\* awaited stays, cancelled, in _waiting_rounds; a waiter leaves the lock's
\* waiters; the holder ends without update_context.
CancelRequests ==
    /\ \E r \in SessionRequests : req_pc[r] \in Pending
    /\ req_pc' = [r \in SessionRequests |->
                    IF req_pc[r] \in Pending THEN "cancelled" ELSE req_pc[r]]
    /\ lock_waiters' = <<>>
    /\ UNCHANGED <<in_flight_locked, waiting_rounds, called, obtained>>
    /\ UNCHANGED <<cbvars, lgvars, timevars, timervars, sumvars, mergevars, queuevars, replayvars, ssevars>>

NextSession ==
    \/ \E r \in SessionRequests : GetContext(r)
    \/ \E r \in SessionRequests : FutureResumes(r)
    \/ \E r \in SessionRequests : LockResumes(r)
    \/ \E r \in SessionRequests : RequestEnds(r)
    \/ CancelRequests

\* The event loop resumes a task whose future has its result, and a request
\* that was sent ends: with a response, an error or the client's timeout.
\* Nothing makes a request start or the worker cancel.
SessionFairness ==
    /\ \A r \in SessionRequests : WF_vars(FutureResumes(r))
    /\ \A r \in SessionRequests : WF_vars(LockResumes(r))
    /\ \A r \in SessionRequests : WF_vars(RequestEnds(r))

SpecSession == InitSession /\ [][NextSession]_vars /\ SessionFairness

\* C31: every get_context() is followed by an update_context() that releases
\* the session, after success, failure and cancellation alike: a session that
\* is locked is unlocked again.
C31_SessionReleased == in_flight_locked ~> ~in_flight_locked

\* What the session does keep: while its holder is under way, and when the
\* holder ended with done or failed, the lock has gone on to the next request.
C31_ReleasedUnlessCancelledOrRaised ==
    (in_flight_locked /\ \A r \in SessionRequests : req_pc[r] # "in_flight") =>
        \E r \in SessionRequests :
            r \in {obtained[i] : i \in 1..Len(obtained)}
            /\ req_pc[r] \in {"cancelled", "raised"}

\* The session is locked, no request holds it, and a later request awaits it.
C31_BlockedForever ==
    /\ in_flight_locked
    /\ \A r \in SessionRequests : req_pc[r] # "in_flight"
    /\ \E r \in SessionRequests : req_pc[r] = "await_future"

CallIndex(r) == CHOOSE i \in 1..Len(called) : called[i] = r

\* C33: the requests of a session obtain its context in the order in which
\* they called get_context(): none that called later has obtained it while
\* one that called earlier is still waiting.
C33_ContextInCallOrder ==
    \A a, b \in SessionRequests :
        (req_pc[a] \in InGetContext
         /\ b \in {obtained[i] : i \in 1..Len(obtained)})
        => CallIndex(b) < CallIndex(a)

\* What holds in every run: a request that entered the waiting rounds later
\* is never woken from them before one that entered earlier.
C33_WaitingRoundsInOrder ==
    \A i, j \in 1..Len(waiting_rounds) :
        i < j => CallIndex(waiting_rounds[i]) < CallIndex(waiting_rounds[j])

\* A request was woken for the session and a request that called
\* get_context() after it holds the context.
C33_Overtaken ==
    \E a, b \in SessionRequests :
        /\ req_pc[a] \in {"woken", "await_lock"}
        /\ req_pc[b] = "in_flight"
        /\ CallIndex(a) < CallIndex(b)


\* ------------------------------------------------- a stage without requests
\* C34: a stage whose int(rate * duration) is 0 is handled without error:
\* run_stage enqueues nothing and goes on to its polling loop and its
\* return; it does not raise.
C34_EmptyStageHandled ==
    (num_requests = 0 /\ tpc \notin {"idle", "run_stage"}) =>
        /\ scheduled = <<>>
        /\ tpc # "raised"

\* What run_stage does keep for such a stage: nothing is enqueued.
C34_EmptyStageEnqueuesNothing ==
    (num_requests = 0 /\ tpc \notin {"idle", "run_stage"}) => scheduled = <<>>

\* A stage of the constant timer with rate * duration below 1 has raised.
C34_EmptyStageRaised ==
    /\ timer.type = "constant"
    /\ ~datagen_trace
    /\ rate_requests = 0
    /\ num_requests = 0
    /\ tpc = "raised"


\* ------------------------------------------------- a sweep without samples
\* preprocess has evaluated the samples of the sweep pre-stage.
PreprocessEvaluated ==
    /\ sweep_config
    /\ stage_runtime_info[-1] # "none"
    /\ opc \notin {"stage_done", "preprocess_eval"}

\* C35: if the sweep pre-stage yields fewer than 2 drain rates, preprocessing
\* fails: no stage of the benchmark is run, mp_run sets stop_signal and
\* returns.
C35_TooFewRatesEndsRun ==
    (PreprocessEvaluated /\ rates < RatesNeeded) =>
        /\ stop_signal
        /\ opc \in {"returned", "await_collector"}
        /\ stage_id = -1
        /\ \A s \in 0..(NumStages - 1) : stage_runtime_info[s] = "none"

\* The pre-stage gave one drain rate and the run has ended with stop_signal set.
C35_Witness ==
    /\ sweep_config
    /\ rates = 1
    /\ opc = "returned"
    /\ stop_signal
    /\ stage_runtime_info[-1] = "completed"


\* ------------------------------------------------ the replay of a trace file
\* Timestamps as the trace file writes them: seconds, and the digits after
\* the point (none, or up to MaxFracLen of them).  Times are in milliseconds.
MaxTraceSeconds == 1
MaxFracLen == 3
FracDigits == {0, 1, 9}
RawTimestamps ==
    [sec : 0..MaxTraceSeconds,
     frac : UNION {[1..n -> FracDigits] : n \in 0..MaxFracLen}]

\* The k-th digit after the point, 0 where none is written.
FracDigit(frac, k) == IF k <= Len(frac) THEN frac[k] ELSE 0

\* The time a timestamp of the trace file denotes.
WrittenMs(raw) ==
    raw.sec * 1000 + FracDigit(raw.frac, 1) * 100
                   + FracDigit(raw.frac, 2) * 10 + FracDigit(raw.frac, 3)

\* parse_timestamp: the fractional seconds are cut to their first two digits
\* (frac_digits[:2]) and padded with "0" before strptime reads them.
ParseTimestamp(raw) ==
    raw.sec * 1000 + FracDigit(raw.frac, 1) * 100 + FracDigit(raw.frac, 2) * 10

\* load_traces over lines that are all well-formed.
ParsedLines(raw) ==
    [i \in 1..Len(raw) |-> [ok |-> TRUE, ts |-> ParseTimestamp(raw[i])]]

\* A trace file of two or three lines, in the order of their times.
InitReplay ==
    /\ raw_trace \in {f \in [1..2 -> RawTimestamps] \cup [1..3 -> RawTimestamps] :
                         \A i \in 1..(Len(f) - 1) :
                             WrittenMs(f[i]) <= WrittenMs(f[i + 1])}
    /\ replay_pc = "idle"
    /\ traces = <<>>
    /\ replay_initial \in {0, 1000}
    /\ replayed = <<>>
    /\ TimeIdle
    /\ TimerIdle
    /\ SummaryIdle
    /\ MergeIdle
    /\ QueueIdle
    /\ SessionIdle
    /\ StreamIdle
    /\ LoadGeneratorIdle

\* TraceReplayLoadTimer.__init__: the trace is loaded.
ReplayLoad ==
    /\ replay_pc = "idle"
    /\ traces' = LoadTraces(ParsedLines(raw_trace))
    /\ replay_pc' = "loaded"
    /\ UNCHANGED <<raw_trace, replay_initial, replayed>>
    /\ UNCHANGED <<cbvars, lgvars, timevars, timervars, sumvars, mergevars, queuevars, sessionvars, ssevars>>

\* One turn of the timer: initial + (trace_ts[i] - trace_ts[0]).
ReplayNext ==
    /\ replay_pc = "loaded"
    /\ Len(replayed) < Len(traces)
    /\ replayed' = Append(replayed,
          replay_initial + (traces[Len(replayed) + 1] - traces[1]))
    /\ UNCHANGED <<raw_trace, replay_pc, traces, replay_initial>>
    /\ UNCHANGED <<cbvars, lgvars, timevars, timervars, sumvars, mergevars, queuevars, sessionvars, ssevars>>

NextReplay ==
    \/ ReplayLoad
    \/ ReplayNext

SpecReplay == InitReplay /\ [][NextReplay]_vars

\* The gap between two consecutive scheduled times less the gap between the
\* timestamps of the trace they come from, as an absolute value.
GapError(i) ==
    LET scheduled_gap == replayed[i + 1] - replayed[i]
        trace_gap == WrittenMs(raw_trace[i + 1]) - WrittenMs(raw_trace[i])
    IN  IF scheduled_gap >= trace_gap THEN scheduled_gap - trace_gap
                                      ELSE trace_gap - scheduled_gap

\* C36: the gaps between consecutive scheduled timestamps equal the gaps
\* between the corresponding trace timestamps to within 1 ms, also when the
\* trace timestamps carry milliseconds or finer fractions of a second.
C36_GapsWithinOneMs ==
    \A i \in 1..(Len(replayed) - 1) : GapError(i) <= 1

\* What the code keeps: the gaps agree to less than 10 ms, and exactly when
\* no timestamp has more than two digits after the point.
C36_GapsWithinTenMs ==
    /\ \A i \in 1..(Len(replayed) - 1) : GapError(i) < 10
    /\ (\A i \in 1..Len(raw_trace) : Len(raw_trace[i].frac) <= 2) =>
           \A i \in 1..(Len(replayed) - 1) : GapError(i) = 0

\* Two lines 1 ms apart, at .009 and .010, are replayed 10 ms apart.
C36_GapOffByNine ==
    /\ Len(replayed) >= 2
    /\ raw_trace[1] = [sec |-> 0, frac |-> <<0, 0, 9>>]
    /\ raw_trace[2].sec = 0
    /\ raw_trace[2].frac \in {<<0, 1>>, <<0, 1, 0>>}
    /\ GapError(1) = 9


\* ------------------------------------------------- the streamed response
\* Largest number of SSE frames of one response body.
MaxFrames == 3

\* What the data line of a frame carries: a JSON object with the text, bytes
\* that are not JSON, an object without choices, an object whose first choice
\* has no text (completion) or no delta.content (chat), or [DONE].
FrameKinds == {"text", "not_json", "no_choices", "no_text", "done"}

\* The body as symbols: the data line of frame i, and the newline byte.
Newline == [kind |-> "nl", id |-> 0]
DataLine(k, i) == [kind |-> k, id |-> i]

\* The bodies of the frames kinds[1], kinds[2], ...: each data line is
\* followed by the delimiter "\n\n".
RECURSIVE Body(_, _)
Body(kinds, i) ==
    IF i > Len(kinds) THEN <<>>
    ELSE <<DataLine(kinds[i], i), Newline, Newline>> \o Body(kinds, i + 1)

\* The handling of one data line by process_response.  completion.py adds
\* choices[0].get("text") to a str, which raises TypeError for None; chat.py
\* tests `if content:`.  JSONDecodeError and IndexError are caught.
LineOutcome(api, kind) ==
    CASE kind = "done" -> "break"
      [] kind = "text" -> "add"
      [] kind = "no_text" /\ api = "completion" -> "raise"
      [] OTHER -> "skip"

\* for line in message.split(b"\n"): the outcome after the lines from k on.
RECURSIVE ProcessLines(_, _, _, _)
ProcessLines(api, message, k, text) ==
    IF k > Len(message) THEN [text |-> text, end |-> "else"]
    ELSE LET line == message[k]
             o == IF line.kind = "nl" THEN "skip" ELSE LineOutcome(api, line.kind)
         IN  CASE o = "break" -> [text |-> text, end |-> "break"]
               [] o = "raise" -> [text |-> text, end |-> "raise"]
               [] o = "add" -> ProcessLines(api, message, k + 1, Append(text, line.id))
               [] OTHER -> ProcessLines(api, message, k + 1, text)

\* The position of the first b"\n\n" in the buffer, 0 if there is none.
Delimiter(buf) ==
    LET at == {i \in 1..(Len(buf) - 1) : buf[i] = Newline /\ buf[i + 1] = Newline}
    IN  IF at = {} THEN 0 ELSE CHOOSE i \in at : \A j \in at : i <= j

\* while b"\n\n" in buffer: split a message off, stamp it, read its lines.
\* [DONE] breaks out of the while loop (for ... else: continue; break).
RECURSIVE WhileDelimiter(_, _, _, _, _)
WhileDelimiter(api, buf, text, times, clock) ==
    LET d == Delimiter(buf) IN
    IF d = 0 THEN [buffer |-> buf, text |-> text, times |-> times, raised |-> FALSE]
    ELSE LET message == SubSeq(buf, 1, d - 1)
             rest == SubSeq(buf, d + 2, Len(buf))
             stamped == Append(times, clock)
             r == ProcessLines(api, message, 1, text)
         IN  CASE r.end = "raise" ->
                    [buffer |-> rest, text |-> r.text, times |-> stamped, raised |-> TRUE]
               [] r.end = "break" ->
                    [buffer |-> rest, text |-> r.text, times |-> stamped, raised |-> FALSE]
               [] OTHER -> WhileDelimiter(api, rest, r.text, stamped, clock)

\* A response of up to MaxFrames frames arrives for a streaming request.
InitStream ==
    /\ api_type \in {"completion", "chat"}
    /\ stream \in {Body(kinds, 1) :
                      kinds \in UNION {[1..n -> FrameKinds] : n \in 1..MaxFrames}}
    /\ delivered = 0
    /\ chunk_no = 0
    /\ buffer = <<>>
    /\ output_text = <<>>
    /\ sse_token_times = <<>>
    /\ sse_pc = "reading"
    /\ TimeIdle
    /\ TimerIdle
    /\ SummaryIdle
    /\ MergeIdle
    /\ QueueIdle
    /\ SessionIdle
    /\ ReplayIdle
    /\ LoadGeneratorIdle

\* async for chunk in response.content.iter_any(): the next n bytes arrive
\* and the body of the loop runs.  An exception leaves process_response and
\* is recorded by process_request's handler as the request's error.
ReceiveChunk(n) ==
    /\ sse_pc = "reading"
    /\ delivered + n <= Len(stream)
    /\ LET chunk == SubSeq(stream, delivered + 1, delivered + n)
           r == WhileDelimiter(api_type, buffer \o chunk, output_text,
                               sse_token_times, chunk_no + 1)
       IN  /\ buffer' = r.buffer
           /\ output_text' = r.text
           /\ sse_token_times' = r.times
           /\ sse_pc' = IF r.raised THEN "failed" ELSE "reading"
    /\ delivered' = delivered + n
    /\ chunk_no' = chunk_no + 1
    /\ UNCHANGED <<api_type, stream>>
    /\ UNCHANGED <<cbvars, lgvars, timevars, timervars, sumvars, mergevars, queuevars, sessionvars, replayvars>>

\* The body has ended: process_response returns its InferenceInfo and the
\* request is recorded without error.
StreamEnds ==
    /\ sse_pc = "reading"
    /\ delivered = Len(stream)
    /\ sse_pc' = "recorded"
    /\ UNCHANGED <<api_type, stream, delivered, chunk_no, buffer, output_text,
                   sse_token_times>>
    /\ UNCHANGED <<cbvars, lgvars, timevars, timervars, sumvars, mergevars, queuevars, sessionvars, replayvars>>

NextStream ==
    \/ \E n \in 1..(3 * MaxFrames) : ReceiveChunk(n)
    \/ StreamEnds

SpecStream == InitStream /\ [][NextStream]_vars

\* The frames of the body: their number, the kind of the i-th, the first
\* [DONE] among them (one past the last frame if there is none), and the
\* frames with text among the first n, in order.
NumFrames == Len(stream) \div 3
FrameKind(i) == stream[3 * i - 2].kind
FirstDone ==
    LET done == {i \in 1..NumFrames : FrameKind(i) = "done"}
    IN  IF done = {} THEN NumFrames + 1 ELSE CHOOSE i \in done : \A j \in done : i <= j
TextFrames(n) ==
    LET m == IF n < NumFrames THEN n ELSE NumFrames
    IN  SelectSeq([i \in 1..m |-> i], LAMBDA i : FrameKind(i) = "text")

\* The body has a frame to skip, and nothing follows its [DONE].
HasFrameToSkip ==
    \E i \in 1..NumFrames : FrameKind(i) \in {"not_json", "no_choices", "no_text"}
DoneIsLast == FirstDone >= NumFrames

\* C37: a frame whose data line is not valid JSON, has no choices, or whose
\* first choice lacks the text (completion) or delta.content (chat) field is
\* skipped and parsing continues: the request completes with the text of the
\* other frames and is recorded without error.
C37_BadFramesSkipped ==
    HasFrameToSkip =>
        /\ sse_pc # "failed"
        /\ (sse_pc = "recorded" /\ DoneIsLast) =>
               output_text = TextFrames(FirstDone - 1)

\* What the code keeps: chat.py skips all three kinds of frame, completion.py
\* the frames that are not JSON or have no choices.
C37_SkippedUnlessTextMissing ==
    (/\ HasFrameToSkip
     /\ DoneIsLast
     /\ api_type = "chat" \/ \A i \in 1..NumFrames : FrameKind(i) # "no_text") =>
        /\ sse_pc # "failed"
        /\ sse_pc = "recorded" => output_text = TextFrames(FirstDone - 1)

\* A completion whose second frame has a choice without text has failed
\* with the first frame's text read.
C37_MissingTextFails ==
    /\ api_type = "completion"
    /\ NumFrames >= 2
    /\ FrameKind(1) = "text"
    /\ FrameKind(2) = "no_text"
    /\ output_text = <<1>>
    /\ sse_pc = "failed"

\* process_response over the whole body as one chunk.
WholeBody == WhileDelimiter(api_type, stream, <<>>, <<>>, 1)

\* C38: data: [DONE] ends the stream: no text of a frame that follows it is
\* added to output_text and no further token timestamp is recorded, and
\* output_text and the number of timestamps depend on the bytes of the body
\* only, not on how they are split into chunks.
C38_DoneEndsStream ==
    sse_pc = "recorded" =>
        /\ \A k \in 1..Len(output_text) : output_text[k] < FirstDone
        /\ Len(sse_token_times) <= FirstDone
        /\ output_text = WholeBody.text
        /\ Len(sse_token_times) = Len(WholeBody.times)

\* What the code keeps: all of this when nothing follows [DONE].
C38_DoneEndsStreamWhenLast ==
    (sse_pc = "recorded" /\ DoneIsLast) =>
        /\ \A k \in 1..Len(output_text) : output_text[k] < FirstDone
        /\ Len(sse_token_times) <= FirstDone
        /\ output_text = WholeBody.text
        /\ Len(sse_token_times) = Len(WholeBody.times)

\* [DONE] in the first chunk, a frame with text in the second: its text is
\* added and a timestamp is recorded for it.
C38_TextAfterDone ==
    /\ sse_pc = "recorded"
    /\ NumFrames = 3
    /\ FrameKind(2) = "done"
    /\ FrameKind(3) = "text"
    /\ output_text = <<1, 3>>
    /\ Len(sse_token_times) = 3
    /\ WholeBody.text = <<1>>


\* ------------------------------------------- the latency block of a summary
\* Largest number of records of a summary with token timestamps.
MaxStreamedRecords == 2

\* Records with info.output_token_times: up to MaxTokens timestamps, in
\* order, between start_time and end_time.
StreamedMetrics ==
    {m \in [error : BOOLEAN, start_time : 0..MaxRecordTime,
            end_time : 0..MaxRecordTime,
            output_token_times :
                UNION {[1..n -> 0..MaxRecordTime] : n \in 0..MaxTokens}] :
        /\ m.start_time <= m.end_time
        /\ \A i \in 1..Len(m.output_token_times) :
              /\ m.start_time <= m.output_token_times[i]
              /\ m.output_token_times[i] <= m.end_time
        /\ \A i \in 1..(Len(m.output_token_times) - 1) :
              m.output_token_times[i] <= m.output_token_times[i + 1]}

\* streamable = [x for x in all_successful
\*               if x.info.output_token_times and len(x.info.output_token_times) > 1]
Streamable(ms) ==
    SelectSeq(AllSuccessful(ms),
              LAMBDA x : x.output_token_times # <<>> /\ Len(x.output_token_times) > 1)

\* The samples of successes.latency.time_to_first_token.
TimeToFirstToken(ms) ==
    [i \in 1..Len(Streamable(ms)) |->
        Streamable(ms)[i].output_token_times[1] - Streamable(ms)[i].start_time]

\* The counts of the ResponsesSummary with the samples of its latency block.
LatencySummary(ms) ==
    [load_summary_count |-> Len(ms),
     successes_count |-> Len(AllSuccessful(ms)),
     failures_count |-> Len(AllFailed(ms)),
     time_to_first_token |-> TimeToFirstToken(ms)]

\* The records of a streaming run have been collected.
InitLatency ==
    /\ spc = "collecting"
    /\ records \in UNION {[1..n -> StreamedMetrics] : n \in 1..MaxStreamedRecords}
    /\ stage_rate \in BOOLEAN
    /\ summary = <<>>
    /\ reports = <<>>
    /\ TimeIdle
    /\ TimerIdle
    /\ MergeIdle
    /\ QueueIdle
    /\ SessionIdle
    /\ ReplayIdle
    /\ StreamIdle
    /\ LoadGeneratorIdle

\* summarize_requests(records, stage_rate) returns its summary.
SummarizeLatency ==
    /\ spc = "collecting"
    /\ ~SummarizeRaises(records, stage_rate)
    /\ summary' = <<LatencySummary(records)>>
    /\ spc' = "summarized"
    /\ UNCHANGED <<records, stage_rate, reports>>
    /\ UNCHANGED <<cbvars, lgvars, timevars, timervars, mergevars, queuevars, sessionvars, replayvars, ssevars>>

NextLatency ==
    \/ SummarizeLatency
    \/ SummarizeRequestsRaises

SpecLatency == InitLatency /\ [][NextLatency]_vars

\* The successful records with at least n token timestamps, in order.
WithTokenTimes(ms, n) ==
    SelectSeq(AllSuccessful(ms), LAMBDA x : Len(x.output_token_times) >= n)

\* output_token_ts[0] - start_ts of each of them.
FirstTokenSamples(ms, n) ==
    [i \in 1..Len(WithTokenTimes(ms, n)) |->
        WithTokenTimes(ms, n)[i].output_token_times[1] - WithTokenTimes(ms, n)[i].start_time]

\* C39: the time_to_first_token summary of the success block has one sample,
\* output_token_ts[0] - start_ts, for every successful streaming record with
\* at least one token timestamp, records of exactly one frame included.
C39_FirstTokenOfEveryRecord ==
    \A i \in 1..Len(summary) :
        summary[i].time_to_first_token = FirstTokenSamples(records, 1)

\* What the code keeps: one sample for every successful record with at least
\* two token timestamps.
C39_FirstTokenOfRecordsWithTwo ==
    \A i \in 1..Len(summary) :
        summary[i].time_to_first_token = FirstTokenSamples(records, 2)

\* Two successful records, one of one frame and one of two: the summary has
\* the sample of the second only.
C39_SingleFrameLeftOut ==
    /\ Len(summary) = 1
    /\ Len(records) = 2
    /\ ~records[1].error
    /\ ~records[2].error
    /\ Len(records[1].output_token_times) = 1
    /\ Len(records[2].output_token_times) = 2
    /\ Len(summary[1].time_to_first_token) = 1

====
